---- MODULE Spec2Model ----
(***************************************************************************)
(* State-machine model of the Stavax Account SDK orchestration layer       *)
(* (class StavaxAccount): pairing through the wagmi walletConnect          *)
(* connector, session creation on the wallet-host backend, hand-off to the *)
(* wallet-host UI and the smart-session transaction fast path.             *)
(*                                                                         *)
(* Every asynchronous operation is cut at its suspension points: the       *)
(* synchronous prefix of a call is one action, and every continuation      *)
(* (HTTP response, connector event, settled connector promise) is one      *)
(* action that runs the whole continuation, including the promise          *)
(* reactions chained on it.                                                *)
(***************************************************************************)
EXTENDS Integers, Sequences, FiniteSets, TLC

\* ------------------------------------------------------------------ bounds
MaxCalls == 2        \* SDK operations invoked by the dApp in one run
MaxMsgs == 2         \* 'message' events emitted by the walletConnect connector
MaxTime == 3         \* clock ticks of one run
MaxDelay == 2        \* longest delayMs, in clock ticks
MaxCancels == 2      \* invocations of one returned cancellation function
MaxWinMsgs == 2      \* 'message' events sent to the page's window

Calls == 1..MaxCalls

\* --------------------------------------------------------------- constants
WalletConnectID == "walletConnect"
ProviderRDNS == "io.stavax.account"
ConnectorIDs == {WalletConnectID, ProviderRDNS}
stavaxSDKDeviceIDKey == "stavax-sdk-device-id"

\* Telegram.WebApp.platform; "undefined" stands for a page without the
\* Telegram global, "" for a Telegram global with an empty platform.
Platforms == {"undefined", "", "unknown", "tdesktop", "weba", "android"}

\* ------------------------------------------------------------------ values
NoValue == [tag |-> "undefined"]
Err(m) == [tag |-> "error", msg |-> m]
NoURI == [src |-> "none", n |-> 0]
AttemptURI(a) == [src |-> "attempt", n |-> a]
CallerURI(k) == [src |-> "caller", n |-> k]
CallerURIs == {CallerURI(1)}

SessionData(uri, href, interact) ==
    [uri |-> uri, href |-> href, openForInteract |-> interact]
Session(id, data) == [tag |-> "session", id |-> id, data |-> data]
ConnectData(a) == [tag |-> "connectData", attempt |-> a]
Result(err) == [tag |-> "result", error |-> err]
ResultOK == Result(NoValue)

Pending == [state |-> "pending", value |-> NoValue]
Resolved(v) == [state |-> "resolved", value |-> v]
Rejected(e) == [state |-> "rejected", value |-> e]
\* resolve()/reject() of a promise that is already settled is a no-op
Settle(p, outcome) == IF p.state = "pending" THEN outcome ELSE p

NoWagmiConfig == [present |-> FALSE, connectors |-> {}]
WagmiConfig(cs) == [present |-> TRUE, connectors |-> cs]

\* 'message' events of the connector: a type other than 'display_uri', a
\* 'display_uri' without data, a 'display_uri' carrying the pairing URI
MessageKinds == {"connecting", "display_uri:empty", "display_uri:uri"}
Payload(kind, a) ==
    [type |-> IF kind = "connecting" THEN "connecting" ELSE "display_uri",
     data |-> IF kind = "display_uri:uri" THEN AttemptURI(a) ELSE NoURI]

\* outcomes of one fetch() to the wallet-host backend
FetchOutcomes == {"networkError", "notOk", "badJSON", "noData", "ok"}

VARIABLES
    config,         \* StavaxAccountConfig after the constructor's defaulting
    platform,       \* Telegram.WebApp.platform of the page
    ancestorIsWeb,  \* window.location.ancestorOrigins[0] == config.webURL
    localStorage,   \* value stored under stavaxSDKDeviceIDKey (NoKey = no entry)
    op,             \* per call: the public operation invoked and its arguments
    ret,            \* per call: the promise returned to the caller
    startP,         \* per call: the promise built by _startConnect
    cb,             \* per call: sessions passed to handleStavaxSession
    pairing,        \* per call: the wagmi connect() promise of the attempt
    pairStarts,     \* per call: number of wagmi connect() invocations
    listeners,      \* 'message' listeners on the walletConnect emitter, in order
    emitted,        \* per kind: 'message' events the connector has emitted
    randoms,        \* number of keys randomString has produced
    inflight,       \* HTTP requests awaiting their response
    sessions,       \* sessions created by the backend
    sessReqs,       \* per call: createSession requests issued
    handoffs,       \* per call: invocations of openTgBotWithSession
    linkCalls,      \* session ids passed to openTelegramLink
    tgLinks,        \* session ids passed on to Telegram.WebApp.openTelegramLink
    drawer,         \* the Drawer singleton
    tx,             \* per call: where a sendTransaction call is suspended
    rpcSends,       \* per call: chain-RPC sendTransaction invocations
    smartSends,     \* per call: smart-session send-transaction requests
    findReqs,       \* per call: find-session requests
    found,          \* calls for which find-session returned a SmartSession
    smartTxs,       \* calls whose transaction the backend executed through
                    \* a smart session
    now,            \* the clock setTimeout measures delays on
    timers,         \* per call: the timeout of openTgBotForInteractWithDelay
    reqId,          \* per call: correlation id of its injected request
    parentMsgs,     \* ids of the requests posted to window.parent
    winListeners,   \* calls whose handler listens for window 'message' events
    winQueue,       \* 'message' events on their way to the window
    winPosted,      \* number of 'message' events sent to the window
    ethStorage,     \* localStorage entries of the EthereumProvider
    waited,         \* per request in flight that time has passed on: for
                    \* how long it has been awaiting its response
    customProviderFn, \* whether the EthereumProvider was given a customProvider
    options,        \* the config object handed to new StavaxAccount(config)
    instance,       \* what the constructor made of it
    botURL,         \* the last getTgBotWebAppURL call: its session, its Result
    contexts        \* per browsing context sharing the storage: where its
                    \* getSDKDeviceID call stands, its local 'key', what its
                    \* calls returned

connVars == <<op, ret, startP, cb, pairing, pairStarts, listeners, emitted>>
netVars == <<inflight, sessions, sessReqs, localStorage, randoms>>
uiVars == <<handoffs, linkCalls, tgLinks, drawer>>
txVars == <<tx, rpcSends, smartSends, findReqs, found, smartTxs>>
timeVars == <<now, timers>>
winVars == <<reqId, parentMsgs, winListeners, winQueue, winPosted>>
provVars == <<ethStorage, waited>>
envVars == <<config, platform, ancestorIsWeb, customProviderFn>>
ctorVars == <<options, instance, botURL>>
vars == <<envVars, connVars, netVars, uiVars, txVars, timeVars, winVars,
          provVars, ctorVars, contexts>>

\* The mutable program state as one record, so that a handler can be written
\* as a function from state to state and handlers can be composed the way
\* the code calls them.
Cur ==
    [op |-> op, ret |-> ret, startP |-> startP, cb |-> cb, pairing |-> pairing,
     pairStarts |-> pairStarts, listeners |-> listeners, emitted |-> emitted,
     randoms |-> randoms,
     inflight |-> inflight, sessions |-> sessions,
     sessReqs |-> sessReqs, localStorage |-> localStorage,
     handoffs |-> handoffs, linkCalls |-> linkCalls, tgLinks |-> tgLinks,
     drawer |-> drawer,
     tx |-> tx, rpcSends |-> rpcSends, smartSends |-> smartSends,
     findReqs |-> findReqs, found |-> found, smartTxs |-> smartTxs,
     now |-> now, timers |-> timers,
     reqId |-> reqId, parentMsgs |-> parentMsgs,
     winListeners |-> winListeners, winQueue |-> winQueue,
     winPosted |-> winPosted,
     ethStorage |-> ethStorage, waited |-> waited]

Assign(st) ==
    /\ op' = st.op /\ ret' = st.ret /\ startP' = st.startP /\ cb' = st.cb
    /\ pairing' = st.pairing /\ pairStarts' = st.pairStarts
    /\ listeners' = st.listeners /\ emitted' = st.emitted
    /\ randoms' = st.randoms
    /\ inflight' = st.inflight
    /\ sessions' = st.sessions /\ sessReqs' = st.sessReqs
    /\ localStorage' = st.localStorage
    /\ handoffs' = st.handoffs /\ linkCalls' = st.linkCalls
    /\ tgLinks' = st.tgLinks /\ drawer' = st.drawer
    /\ tx' = st.tx /\ rpcSends' = st.rpcSends /\ smartSends' = st.smartSends
    /\ findReqs' = st.findReqs /\ found' = st.found
    /\ smartTxs' = st.smartTxs
    /\ now' = st.now /\ timers' = st.timers
    /\ reqId' = st.reqId /\ parentMsgs' = st.parentMsgs
    /\ winListeners' = st.winListeners /\ winQueue' = st.winQueue
    /\ winPosted' = st.winPosted
    /\ ethStorage' = st.ethStorage
    /\ waited' = st.waited
    /\ UNCHANGED <<envVars, ctorVars, contexts>>

\* ------------------------------------------------------------ environment
\* get isInjected()
isInjected == config.usingInjectedMode \/ ancestorIsWeb

\* telegram.ts: telegramCheck(cb, defaultValue) wraps every probe
isTelegram == platform # "undefined" /\ platform # "" /\ platform # "unknown"
isTelegramMobile == platform # "undefined" /\ platform \notin {"weba", "tdesktop"}

\* --------------------------------------------------------------- transport
\* Requests are told apart by the call that issued them and their rank
\* among that call's requests.
NoRid == <<0, 0>>
NextRid(st, owner) ==
    <<owner, st.sessReqs[owner] + st.findReqs[owner] + st.smartSends[owner]>>

\* randomString(len): a key of len characters that no other call of
\* randomString produces; the n-th key generated is written
\* <<"key", n, len>>
randomString(len, n) == <<"key", n, len>>
NoKey == <<"key", 0, 0>>

\* getSDKDeviceID generating a key at every call
getSDKDeviceID_regenerates(st) ==
    [st EXCEPT !.localStorage = randomString(64, st.randoms + 1),
               !.randoms = @ + 1]

\* getSDKDeviceID(): the stored key when there is one, else a fresh random
\* key, which is stored.  The state it leaves and the key it returns.
getSDKDeviceID(st) ==
    IF st.localStorage # NoKey
    THEN st
    ELSE [st EXCEPT !.localStorage = randomString(64, st.randoms + 1),
                    !.randoms = @ + 1]

Request(path, owner, cont, data, force) ==
    [rid |-> NoRid, deviceID |-> NoKey, path |-> path, owner |-> owner,
     cont |-> cont, data |-> data, force |-> force]

\* _fetch(path, options): reads (or creates) the device id and issues the
\* request; the response arrives in a later step
Fetch(st, req) ==
    LET s1 == getSDKDeviceID(st)
    IN  [s1 EXCEPT !.inflight = @ \cup {[req EXCEPT
                                             !.rid = NextRid(st, req.owner),
                                             !.deviceID = s1.localStorage]}]

\* createSession(data), up to its await of _fetch
createSession(st, owner, cont, data, force) ==
    Fetch([st EXCEPT !.sessReqs[owner] = @ + 1],
          Request("/wallet-sessions/new", owner, cont, data, force))

\* createSession(data), after the await: json.data of a 2xx response whose
\* body parses, undefined in every other case.  The backend issues one
\* opaque id per request it accepts.
createSessionResult(outcome, req) ==
    IF outcome = "ok" THEN Session(req.rid, req.data) ELSE NoValue

\* The backend answers request r: a 2xx answer to /wallet-sessions/new has
\* created a session, a 2xx answer with data to find-session names a
\* matching SmartSession, a 2xx answer with a tx_hash to send-transaction
\* has executed the transaction.
Respond(st, r, outcome) ==
    LET s1 == [st EXCEPT !.inflight = @ \ {r}]
    IN  IF outcome # "ok"
        THEN s1
        ELSE IF r.path = "/wallet-sessions/new"
        THEN [s1 EXCEPT !.sessions = @ \cup {Session(r.rid, r.data)}]
        ELSE IF r.path = "/sdk-api/smart-wallets/sessions/send-transaction"
        THEN [s1 EXCEPT !.smartTxs = @ \cup {r.owner}]
        ELSE [s1 EXCEPT !.found = @ \cup {r.owner}]

\* ---------------------------------------------------------------- hand-off
\* getTgBotWebAppURL(session): never carries an error
getTgBotWebAppURL(session) == [tag |-> "result", error |-> NoValue,
                               value |-> session.id]

\* Drawer.postMessage(message): the session goes to the document that is in
\* the iframe now; 'ready' records whether that document had signalled
\* stv_app_ready when the message was posted
DrawerPost(d, sid) ==
    [d EXCEPT !.posted = @ \cup {[sid |-> sid, ready |-> d.pageReady,
                                  targetOrigin |-> "webURL"]}]

\* Drawer.instance building a Drawer on every call
DrawerInstance_alwaysNew(d) ==
    [d EXCEPT !.instance = TRUE, !.roots = @ + 1, !.listeners = @ + 1]

\* Drawer.instance(config): the Drawer kept in the static field, built on
\* the first call; its constructor appends one overlay root to the
\* document and adds one 'message' listener to the window
DrawerInstance(d) ==
    IF d.instance
    THEN d
    ELSE [d EXCEPT !.instance = TRUE, !.roots = @ + 1, !.listeners = @ + 1]

\* Drawer.instance(config).openURL(url).then(() => drawer.postMessage(...)).
\* 'iframe.src = url' loads a fresh document when the iframe shows none yet
\* or shows one that has moved away from url; iframeReady is only ever set,
\* so a later openURL resolves at once
DrawerOpen(d, sid) ==
    LET fresh == ~d.loaded \/ d.moved
        d1 == [DrawerInstance(d) EXCEPT
                        !.isOpen = TRUE, !.loaded = TRUE,
                        !.moved = FALSE,
                        !.pageReady = IF fresh THEN FALSE ELSE @]
    IN  IF d1.iframeReady
        THEN DrawerPost(d1, sid)
        ELSE [d1 EXCEPT !.waiting = @ \cup {sid}]

\* the 100 ms interval of one pending openURL
DrawerInterval(d, sid) ==
    IF d.iframeReady
    THEN DrawerPost([d EXCEPT !.waiting = @ \ {sid}], sid)
    ELSE d

\* data.method split at its first '_'
DrawerMethods == {"stv_app_ready", "stv_app_close", "tgWebApp_close"}
NavigationMethod == "tgWebAppNavigation_openLink"
MethodScope(m) == IF m = "tgWebApp_close" THEN "tgWebApp"
                  ELSE IF m = NavigationMethod THEN "tgWebAppNavigation"
                  ELSE "stv"
MethodName(m) == IF m = "stv_app_ready" THEN "app_ready"
                 ELSE IF m = "stv_app_close" THEN "app_close"
                 ELSE IF m = NavigationMethod THEN "openLink"
                 ELSE "close"
\* the origin of a message: config.webURL itself, config.webURL followed
\* by '/', or an origin that has nothing of it
MessageOrigins == {"webURL", "webURL/", "other"}
MessageSenders == {"stavax_account", "stavax_account_sdk"}

\* onWindowMessage accepting every origin that begins with config.webURL
onWindowMessage_originPrefix(d, origin, from, m) ==
    IF origin \notin {"webURL", "webURL/"} THEN d
    ELSE IF from # "stavax_account" THEN d
    ELSE IF MethodScope(m) = "stv"
    THEN IF MethodName(m) = "app_ready"
         THEN [d EXCEPT !.iframeReady = TRUE, !.pageReady = TRUE]
         ELSE d
    ELSE IF MethodScope(m) = "tgWebAppNavigation"
    THEN [d EXCEPT !.relayed = @ \cup {MethodName(m)}]
    ELSE IF MethodScope(m) = "tgWebApp" /\ MethodName(m) = "close"
    THEN [d EXCEPT !.isOpen = FALSE]
    ELSE d

\* Drawer.onWindowMessage(message)
onWindowMessage(d, origin, from, m) ==
    IF origin # "webURL" THEN d
    ELSE IF from # "stavax_account" THEN d
    ELSE IF MethodScope(m) = "stv"
    THEN IF MethodName(m) = "app_ready"
         THEN [d EXCEPT !.iframeReady = TRUE, !.pageReady = TRUE]
         ELSE d
    ELSE IF MethodScope(m) = "tgWebAppNavigation"
    THEN [d EXCEPT !.relayed = @ \cup {MethodName(m)}]
    ELSE IF MethodScope(m) = "tgWebApp" /\ MethodName(m) = "close"
    THEN [d EXCEPT !.isOpen = FALSE]
    ELSE d

\* openTelegramLink(url): a no-op when the Telegram global is missing
openTelegramLink(st, sid) ==
    [st EXCEPT !.linkCalls = @ \cup {sid},
               !.tgLinks = IF platform # "undefined" THEN @ \cup {sid} ELSE @]

\* variants of openTgBotWithSession that decide in another way
openTgBotWithSession_forceFirst(st, owner, session, force) ==
    LET s0 == [st EXCEPT !.handoffs[owner] = @ + 1]
    IN  IF session.data.openForInteract /\ isInjected /\ ~force
        THEN s0
        ELSE IF force
        THEN openTelegramLink(s0, session.id)
        ELSE IF isTelegram /\ config.usingEmbeddedMode
        THEN [s0 EXCEPT !.drawer = DrawerOpen(@, session.id)]
        ELSE IF isTelegram /\ (isTelegramMobile \/ config.openTgBotOnDesktop)
        THEN openTelegramLink(s0, session.id)
        ELSE s0

openTgBotWithSession_forceInTelegram(st, owner, session, force) ==
    LET s0 == [st EXCEPT !.handoffs[owner] = @ + 1]
    IN  IF session.data.openForInteract /\ isInjected /\ ~force
        THEN s0
        ELSE IF isTelegram /\ config.usingEmbeddedMode
        THEN [s0 EXCEPT !.drawer = DrawerOpen(@, session.id)]
        ELSE IF isTelegram /\ (force \/ isTelegramMobile
                                      \/ config.openTgBotOnDesktop)
        THEN openTelegramLink(s0, session.id)
        ELSE s0

openTgBotWithSession_noSkip(st, owner, session, force) ==
    LET s0 == [st EXCEPT !.handoffs[owner] = @ + 1]
    IN  IF isTelegram /\ config.usingEmbeddedMode
        THEN [s0 EXCEPT !.drawer = DrawerOpen(@, session.id)]
        ELSE IF force \/ (isTelegram /\ (isTelegramMobile
                                          \/ config.openTgBotOnDesktop))
        THEN openTelegramLink(s0, session.id)
        ELSE s0

openTgBotWithSession_desktopOpens(st, owner, session, force) ==
    LET s0 == [st EXCEPT !.handoffs[owner] = @ + 1]
    IN  IF session.data.openForInteract /\ isInjected /\ ~force
        THEN s0
        ELSE IF isTelegram /\ config.usingEmbeddedMode
        THEN [s0 EXCEPT !.drawer = DrawerOpen(@, session.id)]
        ELSE IF force \/ isTelegram
        THEN openTelegramLink(s0, session.id)
        ELSE s0

\* openTgBotWithSession(session, force): the state it leaves behind
openTgBotWithSession(st, owner, session, force) ==
    LET s0 == [st EXCEPT !.handoffs[owner] = @ + 1]
    IN  IF session.data.openForInteract /\ isInjected /\ ~force
        THEN s0
        ELSE IF isTelegram /\ config.usingEmbeddedMode
        THEN [s0 EXCEPT !.drawer = DrawerOpen(@, session.id)]
        ELSE IF force \/ (isTelegram /\ (isTelegramMobile
                                          \/ config.openTgBotOnDesktop))
        THEN IF getTgBotWebAppURL(session).error # NoValue
             THEN s0
             ELSE openTelegramLink(s0, session.id)
        ELSE s0

\* openTgBotWithSession(session, force): the Result it returns
openTgBotWithSessionResult(session, force) ==
    IF session.data.openForInteract /\ isInjected /\ ~force
    THEN ResultOK
    ELSE IF isTelegram /\ config.usingEmbeddedMode
    THEN ResultOK
    ELSE IF (force \/ (isTelegram /\ (isTelegramMobile
                                       \/ config.openTgBotOnDesktop)))
            /\ getTgBotWebAppURL(session).error # NoValue
    THEN Result(getTgBotWebAppURL(session).error)
    ELSE ResultOK

\* ------------------------------------------------------------- connection
\* SettleStart with handleStavaxSession called whatever the outcome
SettleStart_alwaysCallsBack(st, c, outcome) ==
    IF st.startP[c].state # "pending"
    THEN st
    ELSE LET s1 == [st EXCEPT !.startP[c] = outcome]
         IN  IF st.op[c].kind = "connect"
             THEN [s1 EXCEPT !.ret[c] = Settle(@, outcome)]
             ELSE IF st.op[c].hasCallback
             THEN [s1 EXCEPT !.cb[c] = Append(@, outcome.value)]
             ELSE s1

\* Settling the promise built by _startConnect, with the reactions chained
\* on it: connect() returns that promise; wagmiConnect awaits it, then
\* calls handleStavaxSession?.(session) or rejects its own promise.
SettleStart(st, c, outcome) ==
    IF st.startP[c].state # "pending"
    THEN st
    ELSE LET s1 == [st EXCEPT !.startP[c] = outcome]
         IN  IF st.op[c].kind = "connect"
             THEN [s1 EXCEPT !.ret[c] = Settle(@, outcome)]
             ELSE IF outcome.state = "resolved"
             THEN IF st.op[c].hasCallback
                  THEN [s1 EXCEPT !.cb[c] = Append(@, outcome.value)]
                  ELSE s1
             ELSE [s1 EXCEPT !.ret[c] = Settle(@, outcome)]

\* The promise a connect(uri) invocation of call c settles: the caller's
\* promise for a direct connect(uri), the _startConnect promise when the
\* invocation comes from onDisplayURI (.then(resolve).catch(reject)).
SettleConnect(st, c, outcome) ==
    IF st.op[c].kind = "connectURI"
    THEN [st EXCEPT !.ret[c] = Settle(@, outcome)]
    ELSE SettleStart(st, c, outcome)

\* connect(uri) creating its session without the uri
connectURI_dropsURI(st, c, uri) ==
    createSession(st, c, "connect", SessionData(NoURI, "", FALSE), FALSE)

\* connect(uri) with a uri, up to its await of createSession({uri})
connectURI(st, c, uri) ==
    createSession(st, c, "connect", SessionData(uri, "", FALSE), FALSE)

\* connect(uri) resolving with undefined when no session was created
connectResume_returnsUndefined(st, c, session) ==
    IF session = NoValue
    THEN SettleConnect(st, c, Resolved(NoValue))
    ELSE IF ~config.disableAutoOpenTgBot
    THEN SettleConnect(openTgBotWithSession(st, c, session, FALSE), c,
                       Resolved(session))
    ELSE SettleConnect(st, c, Resolved(session))

\* connect(uri) handing off whatever disableAutoOpenTgBot says
connectResume_alwaysOpens(st, c, session) ==
    IF session = NoValue
    THEN SettleConnect(st, c,
                       Rejected(Err("cannot create stavax account session")))
    ELSE SettleConnect(openTgBotWithSession(st, c, session, FALSE), c,
                       Resolved(session))

\* connect(uri) with a uri, after the await
connectResume(st, c, session) ==
    IF session = NoValue
    THEN SettleConnect(st, c,
                       Rejected(Err("cannot create stavax account session")))
    ELSE IF ~config.disableAutoOpenTgBot
    THEN IF openTgBotWithSessionResult(session, FALSE).error # NoValue
         THEN SettleConnect(openTgBotWithSession(st, c, session, FALSE), c,
                  Rejected(openTgBotWithSessionResult(session, FALSE).error))
         ELSE SettleConnect(openTgBotWithSession(st, c, session, FALSE), c,
                            Resolved(session))
    ELSE SettleConnect(st, c, Resolved(session))

\* onDisplayURI without emitter.off: the listener stays registered
onDisplayURI_keepsListener(st, c, payload) ==
    IF payload.type # "display_uri"
    THEN st
    ELSE IF payload.data = NoURI
    THEN SettleStart(st, c, Rejected(Err("cannot get wallet connect URI")))
    ELSE connectURI(st, c, payload.data)

\* onDisplayURI without the test of the uri
onDisplayURI_skipsURICheck(st, c, payload) ==
    IF payload.type # "display_uri"
    THEN st
    ELSE connectURI([st EXCEPT !.listeners = SelectSeq(@, LAMBDA l : l # c)],
                    c, payload.data)

\* onDisplayURI(payload), the listener registered by call c
onDisplayURI(st, c, payload) ==
    IF payload.type # "display_uri"
    THEN st
    ELSE LET s1 == [st EXCEPT !.listeners =
                        SelectSeq(@, LAMBDA l : l # c)]
         IN  IF payload.data = NoURI
             THEN SettleStart(s1, c, Rejected(Err("cannot get wallet connect URI")))
             ELSE connectURI(s1, c, payload.data)

\* emitter.emit('message', payload): every listener registered when the
\* event is emitted is called once, in registration order
RECURSIVE EmitTo(_, _, _)
EmitTo(st, ls, payload) ==
    IF ls = <<>>
    THEN st
    ELSE EmitTo(onDisplayURI(st, Head(ls), payload), Tail(ls),
                payload)

\* connect(config, {connector}) of @wagmi/core is invoked: one pairing attempt
startPairing(st, c, connector) ==
    [st EXCEPT !.pairing[c] = [state |-> "pending", connector |-> connector],
               !.pairStarts[c] = @ + 1]

\* _startConnect pairing through walletConnect whatever the mode
startConnect_ignoresInjected(st, c) ==
    IF ~config.wagmiConfig.present
    THEN SettleStart(st, c, Rejected(Err("Missing wagmiConfig")))
    ELSE IF WalletConnectID \notin config.wagmiConfig.connectors
         THEN SettleStart(st, c, Rejected(Err("missing walletConnect connector")))
         ELSE startPairing([st EXCEPT !.listeners = Append(@, c)], c,
                           WalletConnectID)

\* _startConnect starting the pairing without registering onDisplayURI
startConnect_pairsUnregistered(st, c) ==
    IF ~config.wagmiConfig.present
    THEN SettleStart(st, c, Rejected(Err("Missing wagmiConfig")))
    ELSE IF isInjected
    THEN IF ProviderRDNS \notin config.wagmiConfig.connectors
         THEN SettleStart(st, c, Rejected(Err("cannot find stavaxProvider connector")))
         ELSE startPairing(st, c, ProviderRDNS)
    ELSE IF WalletConnectID \notin config.wagmiConfig.connectors
         THEN SettleStart(st, c, Rejected(Err("missing walletConnect connector")))
         ELSE startPairing(st, c, WalletConnectID)

\* _startConnect(onSuccess, onError): the executor of its promise
startConnect(st, c) ==
    IF ~config.wagmiConfig.present
    THEN SettleStart(st, c, Rejected(Err("Missing wagmiConfig")))
    ELSE IF isInjected
    THEN IF ProviderRDNS \notin config.wagmiConfig.connectors
         THEN SettleStart(st, c, Rejected(Err("cannot find stavaxProvider connector")))
         ELSE startPairing(st, c, ProviderRDNS)
    ELSE IF WalletConnectID \notin config.wagmiConfig.connectors
         THEN SettleStart(st, c, Rejected(Err("missing walletConnect connector")))
         ELSE startPairing([st EXCEPT !.listeners = Append(@, c)], c,
                           WalletConnectID)

\* .then(data => onSuccess?.(data)) on the wagmi connect() promise
pairingFulfilled(st, c) ==
    LET s1 == [st EXCEPT !.pairing[c].state = "fulfilled"]
    IN  IF st.op[c].kind = "wagmiConnect"
        THEN [s1 EXCEPT !.ret[c] = Settle(@, Resolved(ConnectData(c)))]
        ELSE s1

\* .catch(err => { console.error(err); onError?.(err) })
pairingRejected(st, c) ==
    LET s1 == [st EXCEPT !.pairing[c].state = "rejected"]
    IN  IF st.op[c].kind = "wagmiConnect"
        THEN [s1 EXCEPT !.ret[c] = Settle(@, Rejected(Err("pairing failed")))]
        ELSE s1

\* ------------------------------------------------------- open* operations
TgBotScreens == {"home", "deposit", "withdraw"}
ScreenHref(screen) ==
    CASE screen = "home" -> "/"
      [] screen = "deposit" -> "/currency/qr-code"
      [] screen = "withdraw" -> "/withdraw"
      [] OTHER -> ""

\* openTgBotWithSessionData(data, force), up to its await of createSession
openTgBotWithSessionData(st, c, cont, data, force) ==
    createSession(st, c, cont, data, force)

\* openTgBotWithSessionData(data, force), after the await; the Result goes
\* to the caller of a public open* operation and is dropped by
\* sendTransaction's fire-and-forget call
openResume(st, c, cont, session, force) ==
    LET res == IF session = NoValue
               THEN Result(Err("cannot create new stavax session"))
               ELSE openTgBotWithSessionResult(session, force)
        s1 == IF session = NoValue
              THEN st
              ELSE openTgBotWithSession(st, c, session, force)
    IN  IF cont = "open"
        THEN [s1 EXCEPT !.ret[c] = Settle(@, Resolved(res))]
        ELSE s1

\* openTgBotScreen(screen, force, extraData)
openTgBotScreen(st, c, cont, screen, force, interact) ==
    IF screen \notin TgBotScreens
    THEN IF cont = "open"
         THEN [st EXCEPT !.ret[c] =
                   Settle(@, Resolved(Result(Err("invalid TgBotScreen"))))]
         ELSE st
    ELSE openTgBotWithSessionData(st, c, cont,
             SessionData(NoURI, ScreenHref(screen), interact), force)

\* openTgBotForInteract(force)
openTgBotForInteract(st, c, cont, force) ==
    openTgBotScreen(st, c, cont, "home", force, TRUE)

\* openTgBot(force)
openTgBot(st, c, force) ==
    openTgBotScreen(st, c, "open", "home", force, FALSE)

\* the cancellation function doing nothing
clearTimeout_keepsTimer(st, c) ==
    [st EXCEPT !.timers[c].cancels = @ + 1]

\* the cancellation function arming a timer that has fired once more
clearTimeout_rearms(st, c) ==
    [st EXCEPT !.timers[c].cancels = @ + 1,
               !.timers[c].state = IF @ = "fired" THEN "armed" ELSE "cleared"]

\* the function openTgBotForInteractWithDelay returns: clearTimeout(tid)
\* removes a timeout that is pending and does nothing otherwise
clearTimeout(st, c) ==
    [st EXCEPT !.timers[c].cancels = @ + 1,
               !.timers[c].state = IF @ = "armed" THEN "cleared" ELSE @]

\* openTgBotForInteractWithDelay(delayMs, force): setTimeout(callback, delayMs)
openTgBotForInteractWithDelay(st, c, delayMs, force) ==
    [st EXCEPT !.timers[c] = [state |-> "armed", due |-> st.now + delayMs,
                              force |-> force, cancels |-> 0]]

\* the callback of the timeout: openTgBotForInteract(force), its promise
\* goes to nobody
timeoutCallback(st, c) ==
    openTgBotForInteract([st EXCEPT !.timers[c].state = "fired"], c,
                         "interact", st.timers[c].force)

\* ------------------------------------------------------ injected requests
EventTypes == {"stv_injected_provider_response",
               "stv_injected_provider_request"}
EventData == [tag |-> "eventData"]
WindowMessage(id, from, eventType, success) ==
    [id |-> id, from |-> from, eventType |-> eventType, success |-> success,
     eventData |-> EventData]

\* injectedHandler without the test of the correlation id
injectedHandler_anyId(st, c, e) ==
    LET s1 == [st EXCEPT !.winListeners = @ \ {c}]
    IN  IF e.from # "stavax_account"
           \/ e.eventType # "stv_injected_provider_response"
        THEN s1
        ELSE IF e.success
        THEN [s1 EXCEPT !.ret[c] = Settle(@, Resolved(e.eventData))]
        ELSE [s1 EXCEPT !.ret[c] = Settle(@, Rejected(e.eventData))]

\* the 'message' handler of the injected request of call c
injectedHandler(st, c, e) ==
    IF e.id # st.reqId[c]
    THEN st
    ELSE LET s1 == [st EXCEPT !.winListeners = @ \ {c}]
         IN  IF e.from # "stavax_account"
                \/ e.eventType # "stv_injected_provider_response"
             THEN s1
             ELSE IF e.success
             THEN [s1 EXCEPT !.ret[c] = Settle(@, Resolved(e.eventData))]
             ELSE [s1 EXCEPT !.ret[c] = Settle(@, Rejected(e.eventData))]

\* the window dispatches e to the handlers registered when the event fires
RECURSIVE DispatchTo(_, _, _)
DispatchTo(st, cs, e) ==
    IF cs = {}
    THEN st
    ELSE LET c == CHOOSE x \in cs : \A y \in cs : x <= y
         IN  DispatchTo(injectedHandler(st, c, e), cs \ {c}, e)

\* injectedRequest(platform, request, metadata)
injectedRequest(st, c) ==
    LET id == randomString(32, st.randoms + 1)
    IN  [st EXCEPT !.randoms = @ + 1,
                   !.reqId[c] = id,
                   !.parentMsgs = @ \cup {id},
                   !.winListeners = @ \cup {c}]

\* request(platform, request); getPageMetadata reads the SDK device id
request(st, c) ==
    LET s1 == getSDKDeviceID(st)
    IN  IF isInjected
        THEN injectedRequest(s1, c)
        ELSE [s1 EXCEPT !.ret[c] = Settle(@, Rejected(Err(
                 "send provider request without injected is not implemented")))]

\* ------------------------------------------------------ EthereumProvider
\* Strings the provider converts are sequences of one-character strings.
DigitChars == <<"0", "1", "2", "3", "4", "5", "6", "7", "8", "9",
                "a", "b", "c", "d", "e", "f">>
NaN == [tag |-> "NaN", n |-> 0]
Num(n) == [tag |-> "number", n |-> n]
Null == [tag |-> "null"]
Text(s) == [tag |-> "string", chars |-> s]

\* the value of ch as a digit of the radix, or the radix itself when ch is
\* no digit of it
DigitOf(ch, radix) ==
    IF \E i \in 1..radix : DigitChars[i] = ch
    THEN (CHOOSE i \in 1..radix : DigitChars[i] = ch) - 1
    ELSE radix

RECURSIVE ParseDigits(_, _, _, _)
ParseDigits(s, radix, acc, any) ==
    IF s = <<>> \/ DigitOf(Head(s), radix) = radix
    THEN IF any THEN Num(acc) ELSE NaN
    ELSE ParseDigits(Tail(s), radix, acc * radix + DigitOf(Head(s), radix),
                     TRUE)

\* parseInt(s, radix); radix 0 stands for a call without a radix.  A
\* leading "0x" is skipped when the radix is 16 or absent, and then the
\* longest prefix of digits counts; NaN when there is none.
parseInt(s, radix) ==
    LET hex == Len(s) >= 2 /\ s[1] = "0" /\ s[2] = "x" /\ radix \in {0, 16}
        r == IF radix = 0 THEN (IF hex THEN 16 ELSE 10) ELSE radix
    IN  ParseDigits(IF hex THEN SubSeq(s, 3, Len(s)) ELSE s, r, 0, FALSE)

RECURSIVE Digits(_, _)
Digits(n, radix) ==
    IF n < radix
    THEN <<DigitChars[n + 1]>>
    ELSE Append(Digits(n \div radix, radix), DigitChars[(n % radix) + 1])

\* Number.prototype.toString(radix)
toString(x, radix) ==
    IF x = NaN THEN <<"N", "a", "N">> ELSE Digits(x.n, radix)

\* the entries under storagePrefix; "" and <<>> stand for a missing entry,
\* which getItem(...) || ... treats like an empty one
NoEthStorage == [evmAddress |-> "", chainId |-> <<>>]

\* get address()
address(st) == IF st.ethStorage.evmAddress = ""
               THEN Null
               ELSE Text(st.ethStorage.evmAddress)

\* set address(null); no listener is registered on the provider's events
setAddressNull(st) == [st EXCEPT !.ethStorage.evmAddress = ""]

\* get chainId()
chainId(st) ==
    parseInt(IF st.ethStorage.chainId = <<>> THEN <<"1">>
             ELSE st.ethStorage.chainId, 0)

\* set chainId(chain) for a number
setChainId(st, chain) ==
    [st EXCEPT !.ethStorage.chainId = toString(chain, 10)]

Accounts(st) == [tag |-> "accounts",
                 list |-> IF address(st) = Null THEN <<>>
                          ELSE <<st.ethStorage.evmAddress>>]

RelayedMethods == {"eth_requestAccounts", "personal_sign",
                   "eth_sendTransaction", "eth_signTransaction",
                   "eth_signTypedData", "eth_signTypedData_v3",
                   "eth_signTypedData_v4"}
LocalMethods == {"wallet_revokePermissions", "eth_accounts", "eth_chainId",
                 "wallet_switchEthereumChain"}
UnsupportedMethod == Text("Unsupported method: wallet_requestPermissions")
MethodNotImplemented(chain) ==
    [tag |-> "string", chars |-> "Method not implemented", chain |-> chain]
CustomResult == [tag |-> "customProviderFn"]

\* the default case forwarding the request to the parent frame
defaultCase_relays(st, c, ok) == request(st, c)

\* the default case dropping the stored record before it throws
defaultCase_clearsRecord(st, c, ok) ==
    [st EXCEPT !.ethStorage = NoEthStorage,
               !.ret[c] = Settle(@, Rejected(MethodNotImplemented(
                                                 chainId(st))))]

\* request(data), default case; ok is the outcome of the promise
\* customProviderFn returns
defaultCase(st, c, ok) ==
    IF ~customProviderFn
    THEN [st EXCEPT !.ret[c] =
              Settle(@, Rejected(MethodNotImplemented(chainId(st))))]
    ELSE [st EXCEPT !.ret[c] =
              Settle(@, IF ok THEN Resolved(CustomResult)
                              ELSE Rejected(CustomResult))]

\* request(data), the switch on data.method
switchOnMethod(st, c, data, ok) ==
    CASE data.method = "wallet_revokePermissions" ->
             [setAddressNull(st) EXCEPT !.ret[c] = Settle(@, Resolved(Null))]
      [] data.method = "wallet_requestPermissions" ->
             [st EXCEPT !.ret[c] = Settle(@, Rejected(UnsupportedMethod))]
      [] data.method = "eth_accounts" ->
             [st EXCEPT !.ret[c] = Settle(@, Resolved(Accounts(st)))]
      [] data.method = "eth_chainId" ->
             [st EXCEPT !.ret[c] = Settle(@, Resolved(Text(
                  <<"0", "x">> \o toString(chainId(st), 16))))]
      [] data.method = "wallet_switchEthereumChain" ->
             [setChainId(st, parseInt(data.param, 16))
                 EXCEPT !.ret[c] = Settle(@, Resolved(Null))]
      [] data.method \in RelayedMethods -> request(st, c)
      [] OTHER -> defaultCase(st, c, ok)

\* request(data) answering the methods of the switch itself and relaying
\* the others
EthereumProvider_request_switchFirst(st, c, data, ok) ==
    IF isInjected /\ data.method \notin LocalMethods
    THEN request(st, c)
    ELSE switchOnMethod(st, c, data, ok)

\* EthereumProvider.request(data)
EthereumProvider_request(st, c, data, ok) ==
    IF isInjected
    THEN request(st, c)
    ELSE switchOnMethod(st, c, data, ok)

\* ------------------------------------------------------------ transactions
Hash(via, c) == [tag |-> "hash", via |-> via, n |-> c]

\* Building the find-session / send-transaction body throws when the sender
\* or the chain must be read from a wagmiConfig that was never provided:
\* parameters.account || getAccount(this.getWagmiConfig()).address
smartBodyThrows(params) ==
    (~params.account \/ ~params.chainId) /\ ~config.wagmiConfig.present

\* standardPath holding the chain-RPC send back until the interact hand-off
\* has finished
standardPath_awaitsHandoff(st, c) ==
    IF ~config.disableAutoOpenTgBot
    THEN [openTgBotForInteract(st, c, "interact", FALSE)
             EXCEPT !.tx[c] = "handoff"]
    ELSE IF ~config.wagmiConfig.present
    THEN [st EXCEPT !.ret[c] = Settle(@, Rejected(Err("Missing wagmiConfig"))),
                    !.tx[c] = "done"]
    ELSE [st EXCEPT !.rpcSends[c] = @ + 1, !.tx[c] = "rpc"]

\* sendTransaction, lines 140-144: fire-and-forget interact hand-off, then
\* the chain-RPC send of @wagmi/core
standardPath(st, c) ==
    LET s1 == IF ~config.disableAutoOpenTgBot
              THEN openTgBotForInteract(st, c, "interact", FALSE)
              ELSE st
    IN  IF ~config.wagmiConfig.present
        THEN [s1 EXCEPT !.ret[c] = Settle(@, Rejected(Err("Missing wagmiConfig"))),
                        !.tx[c] = "done"]
        ELSE [s1 EXCEPT !.rpcSends[c] = @ + 1, !.tx[c] = "rpc"]

\* afterSmartSend returning only when both a hash and the flag are there
afterSmartSend_needsBoth(st, c, txHash) ==
    IF txHash # NoValue /\ config.disableSmartSessionFailSafe
    THEN [st EXCEPT !.ret[c] = Settle(@, Resolved(txHash)), !.tx[c] = "done"]
    ELSE standardPath(st, c)

\* afterSmartSend without the disableSmartSessionFailSafe test
afterSmartSend_ignoresFlag(st, c, txHash) ==
    IF txHash # NoValue
    THEN [st EXCEPT !.ret[c] = Settle(@, Resolved(txHash)), !.tx[c] = "done"]
    ELSE standardPath(st, c)

\* afterSmartSend never falling through to the standard path
afterSmartSend_neverFallsBack(st, c, txHash) ==
    [st EXCEPT !.ret[c] = Settle(@, Resolved(txHash)), !.tx[c] = "done"]

\* sendTransaction, lines 134-136, once the submission has produced txHash
afterSmartSend(st, c, txHash) ==
    IF txHash # NoValue \/ config.disableSmartSessionFailSafe
    THEN [st EXCEPT !.ret[c] = Settle(@, Resolved(txHash)), !.tx[c] = "done"]
    ELSE standardPath(st, c)

\* sendSmartSessionTransaction(id, parameters), up to its await of _fetch
sendSmartSessionTransaction(st, c) ==
    IF smartBodyThrows(st.op[c])
    THEN afterSmartSend(st, c, NoValue)
    ELSE Fetch([st EXCEPT !.smartSends[c] = @ + 1, !.tx[c] = "submit"],
               Request("/sdk-api/smart-wallets/sessions/send-transaction", c,
                       "smartSend", SessionData(NoURI, "", FALSE), FALSE))

\* sendSmartSessionTransaction, after the await: json.data?.tx_hash
sendSmartSessionTransactionResult(outcome, c) ==
    IF outcome = "ok" THEN Hash("smart", c) ELSE NoValue

\* afterFind submitting to the smart session whatever the lookup returned
afterFind_alwaysSubmits(st, c, isFound) ==
    sendSmartSessionTransaction(st, c)

\* sendTransaction, lines 132-138, once the lookup has produced smartSession
afterFind(st, c, isFound) ==
    IF isFound
    THEN sendSmartSessionTransaction(st, c)
    ELSE standardPath(st, c)

\* findSmartSessionResult without the res.ok test
findSmartSessionResult_ignoresStatus(outcome) == outcome \in {"ok", "notOk"}

\* findSmartSession(parameters), after the await: json.data of a 2xx
\* response, undefined otherwise
findSmartSessionResult(outcome) == outcome = "ok"

\* sendTransaction without the enableSmartSession test
sendTransaction_alwaysLooksUp(st, c) ==
    IF smartBodyThrows(st.op[c])
    THEN afterFind(st, c, FALSE)
    ELSE Fetch([st EXCEPT !.findReqs[c] = @ + 1, !.tx[c] = "find"],
               Request("/sdk-api/smart-wallets/sessions/find-session", c,
                       "find", SessionData(NoURI, "", FALSE), FALSE))

\* sendTransaction(parameters), up to its first await
sendTransaction(st, c) ==
    IF config.enableSmartSession
    THEN IF smartBodyThrows(st.op[c])
         THEN afterFind(st, c, FALSE)
         ELSE Fetch([st EXCEPT !.findReqs[c] = @ + 1, !.tx[c] = "find"],
                    Request("/sdk-api/smart-wallets/sessions/find-session", c,
                            "find", SessionData(NoURI, "", FALSE), FALSE))
    ELSE standardPath(st, c)

\* String.prototype.replace(pattern, replacement) for a string pattern:
\* the first occurrence only
IndexOf(s, pat) ==
    LET hits == {i \in 1..(Len(s) - Len(pat) + 1) :
                    SubSeq(s, i, i + Len(pat) - 1) = pat}
    IN  IF hits = {} THEN 0 ELSE CHOOSE i \in hits : \A j \in hits : i <= j
replace(s, pat, replacement) ==
    LET i == IndexOf(s, pat)
    IN  IF i = 0 THEN s
        ELSE SubSeq(s, 1, i - 1) \o replacement
                 \o SubSeq(s, i + Len(pat), Len(s))

\* encodeFunctionData({abi, args, functionName}) of viem: '0x', the
\* selector of the function and its encoded arguments
encodeFunctionData(functionName) ==
    <<"0", "x">> \o (CASE functionName = "transfer" -> <<"a", "9">>
                       [] functionName = "approve" -> <<"0", "9">>)

\* writeContract with a dispatch of its own: the suffix appended as it is
\* and the standard path taken at once
writeContract_ownDispatch(st, c, parameters) ==
    standardPath(
        [st EXCEPT !.op[c].to = parameters.address,
                   !.op[c].data = encodeFunctionData(parameters.functionName)
                       \o (IF parameters.dataSuffix \in {NoValue, Text(<<>>)}
                           THEN <<>> ELSE parameters.dataSuffix.chars)], c)

\* writeContract(parameters): op[c].to and op[c].data are the parameters
\* sendTransaction receives besides the rest of the request
writeContract(st, c, parameters) ==
    LET data == encodeFunctionData(parameters.functionName)
        suffix == IF parameters.dataSuffix \in {NoValue, Text(<<>>)}
                  THEN <<>>
                  ELSE replace(parameters.dataSuffix.chars, <<"0", "x">>,
                               <<>>)
    IN  sendTransaction([st EXCEPT !.op[c].to = parameters.address,
                                   !.op[c].data = data \o suffix], c)

\* the promise of @wagmi/core's sendTransaction settles; sendTransaction
\* returned it
rpcSettled(st, c, ok) ==
    [st EXCEPT !.ret[c] = Settle(@, IF ok THEN Resolved(Hash("rpc", c))
                                         ELSE Rejected(Err("rpc failed"))),
               !.tx[c] = "done"]

\* ------------------------------------------------------------ construction
\* A string is a sequence of pieces; the pieces of the strings that get
\* converted are single characters.
productionAPI == Text(<<"https://account-api.stavax.io">>)
productionBotURL == Text(<<"https://t.me/stavax_account_bot/app">>)
productionWebURL == Text(<<"https://account.stavax.io">>)

\* !value
Falsy(value) == value \in {NoValue, Null, Text(<<>>), Num(0), NaN}

\* the constructor testing tgBotWebAppURL once more where requestTimeout
\* is meant
constructor_testsBotURLTwice(cfg) ==
    IF Falsy(cfg.projectID)
    THEN [state |-> "threw", error |-> Err("invalid project config"),
          config |-> cfg]
    ELSE LET c1 == IF Falsy(cfg.apiURL)
                   THEN [cfg EXCEPT !.apiURL = productionAPI] ELSE cfg
             c2 == IF Falsy(c1.tgBotWebAppURL)
                   THEN [c1 EXCEPT !.tgBotWebAppURL = productionBotURL]
                   ELSE c1
             c3 == IF Falsy(c2.webURL)
                   THEN [c2 EXCEPT !.webURL = productionWebURL] ELSE c2
             c4 == IF Falsy(c3.tgBotWebAppURL)
                   THEN [c3 EXCEPT !.requestTimeout = Num(60000)] ELSE c3
         IN  [state |-> "constructed", error |-> NoValue, config |-> c4]

\* constructor(config): the instance, or the error thrown
constructor(cfg) ==
    IF Falsy(cfg.projectID)
    THEN [state |-> "threw", error |-> Err("invalid project config"),
          config |-> cfg]
    ELSE LET c1 == IF Falsy(cfg.apiURL)
                   THEN [cfg EXCEPT !.apiURL = productionAPI] ELSE cfg
             c2 == IF Falsy(c1.tgBotWebAppURL)
                   THEN [c1 EXCEPT !.tgBotWebAppURL = productionBotURL]
                   ELSE c1
             c3 == IF Falsy(c2.webURL)
                   THEN [c2 EXCEPT !.webURL = productionWebURL] ELSE c2
             c4 == IF Falsy(c3.requestTimeout)
                   THEN [c3 EXCEPT !.requestTimeout = Num(60000)] ELSE c3
         IN  [state |-> "constructed", error |-> NoValue, config |-> c4]

\* setWagmiConfig storing the wagmiConfig and switching auto-open back on
setWagmiConfig_resetsAutoOpen(cfg, wagmiConfig) ==
    [cfg EXCEPT !.wagmiConfig = wagmiConfig, !.disableAutoOpenTgBot = FALSE]

\* setWagmiConfig(wagmiConfig): the configuration it leaves behind
setWagmiConfig(cfg, wagmiConfig) == [cfg EXCEPT !.wagmiConfig = wagmiConfig]

\* encodeURIComponent keeps the letters, the digits and these marks
UnreservedChars == {"a", "b", "c", "d", "i", "s", "1", "2", "3",
                    "-", "_", ".", "!", "~", "*", "'", "(", ")"}

\* the two hexadecimal digits of the UTF-8 byte of an ASCII character
HexByte(ch) ==
    CASE ch = " " -> <<"2", "0">>
      [] ch = "#" -> <<"2", "3">>
      [] ch = "%" -> <<"2", "5">>
      [] ch = "&" -> <<"2", "6">>
      [] ch = "+" -> <<"2", "B">>
      [] ch = "/" -> <<"2", "F">>
      [] ch = "=" -> <<"3", "D">>
      [] ch = "?" -> <<"3", "F">>

RECURSIVE encodeURIComponent(_)
encodeURIComponent(s) ==
    IF s = <<>>
    THEN <<>>
    ELSE (IF Head(s) \in UnreservedChars
          THEN <<Head(s)>>
          ELSE <<"%">> \o HexByte(Head(s)))
             \o encodeURIComponent(Tail(s))

\* new Result(value): no error
ResultOf(value) == [tag |-> "result", error |-> NoValue, value |-> value]

\* the command put into the url as it is
TgBotWebAppURL_unencoded(cfg, session) ==
    ResultOf(Text(cfg.tgBotWebAppURL.chars \o <<"?startapp=">>
                      \o <<"s", "i", "d", "=">> \o session.id))

\* getTgBotWebAppURL(session) as text, for an instance with configuration
\* cfg; the hand-off model keeps of this url only the session id in it
TgBotWebAppURL(cfg, session) ==
    LET command == encodeURIComponent(<<"s", "i", "d", "=">> \o session.id)
    IN  ResultOf(Text(cfg.tgBotWebAppURL.chars \o <<"?startapp=">>
                          \o command))

\* ------------------------------------------------------------------- Init
NoOp == [kind |-> "none", hasCallback |-> FALSE, uri |-> NoURI,
         account |-> FALSE, chainId |-> FALSE, force |-> FALSE,
         method |-> "", param |-> <<>>,
         address |-> "", functionName |-> "", dataSuffix |-> NoValue,
         to |-> "", data |-> <<>>, by |-> 1,
         wagmiConfig |-> NoWagmiConfig]
Op(kind) == [NoOp EXCEPT !.kind = kind]

NoTimer == [state |-> "none", due |-> 0, force |-> FALSE, cancels |-> 0]

NoDrawer == [instance |-> FALSE, isOpen |-> FALSE, iframeReady |-> FALSE,
             loaded |-> FALSE, pageReady |-> FALSE, moved |-> FALSE,
             waiting |-> {}, posted |-> {}, roots |-> 0, listeners |-> 0,
             relayed |-> {}]

\* no wagmiConfig yet, one without connectors, one with both connectors
WagmiConfigs == {NoWagmiConfig, WagmiConfig({}), WagmiConfig(ConnectorIDs)}

InitCore ==
    /\ localStorage = NoKey
    /\ op = [c \in Calls |-> NoOp]
    /\ ret = [c \in Calls |-> Pending]
    /\ startP = [c \in Calls |-> Pending]
    /\ cb = [c \in Calls |-> <<>>]
    /\ pairing = [c \in Calls |-> [state |-> "none", connector |-> ""]]
    /\ pairStarts = [c \in Calls |-> 0]
    /\ listeners = <<>>
    /\ emitted = [k \in MessageKinds |-> 0]
    /\ randoms = 0
    /\ inflight = {}
    /\ sessions = {}
    /\ sessReqs = [c \in Calls |-> 0]
    /\ handoffs = [c \in Calls |-> 0]
    /\ linkCalls = {}
    /\ tgLinks = {}
    /\ drawer = NoDrawer
    /\ tx = [c \in Calls |-> "none"]
    /\ rpcSends = [c \in Calls |-> 0]
    /\ smartSends = [c \in Calls |-> 0]
    /\ findReqs = [c \in Calls |-> 0]
    /\ found = {}
    /\ smartTxs = {}
    /\ now = 0
    /\ timers = [c \in Calls |-> NoTimer]
    /\ reqId = [c \in Calls |-> NoKey]
    /\ parentMsgs = {}
    /\ winListeners = {}
    /\ winQueue = {}
    /\ winPosted = 0
    /\ waited = <<>>

\* a page that never used the EthereumProvider and passes no customProvider
InitEthereum ==
    /\ ethStorage = NoEthStorage
    /\ customProviderFn = FALSE

\* the construction itself is not followed
InitConstructed ==
    /\ options = NoValue
    /\ instance = NoValue
    /\ botURL = NoValue

\* no other browsing context uses the storage
InitAlone == contexts = <<>>

InitProgram ==
    /\ InitCore
    /\ InitEthereum
    /\ InitConstructed
    /\ InitAlone

\* configurations of the pairing runs
InitConnect ==
    /\ InitProgram
    /\ config \in [disableAutoOpenTgBot : BOOLEAN,
                    openTgBotOnDesktop : {FALSE},
                    enableSmartSession : {FALSE},
                    disableSmartSessionFailSafe : {FALSE},
                    usingEmbeddedMode : {FALSE},
                    usingInjectedMode : BOOLEAN,
                    wagmiConfig : WagmiConfigs]
    /\ platform = "android"
    /\ ancestorIsWeb \in BOOLEAN

\* ---------------------------------------------------------------- actions
\* the dApp invokes its operations one after the other; call c is the c-th
CanCall(c) ==
    /\ op[c].kind = "none"
    /\ \A d \in Calls : d < c => op[d].kind # "none"

\* connect() without a uri
Connect(c) ==
    /\ CanCall(c)
    /\ Assign(startConnect([Cur EXCEPT !.op[c] = Op("connect")], c))

\* wagmiConnect(handleStavaxSession?)
WagmiConnect(c) ==
    /\ CanCall(c)
    /\ \E hasCb \in BOOLEAN :
          Assign(startConnect(
              [Cur EXCEPT !.op[c] = [Op("wagmiConnect") EXCEPT
                                         !.hasCallback = hasCb]], c))

\* connect(uri) with a non-empty uri
ConnectWithURI(c) ==
    /\ CanCall(c)
    /\ \E uri \in CallerURIs :
          Assign(connectURI(
              [Cur EXCEPT !.op[c] = [Op("connectURI") EXCEPT !.uri = uri]],
              c, uri))

\* the walletConnect connector emits a 'message' event during attempt a
EmitMessage(a) ==
    /\ pairing[a].state = "pending"
    /\ pairing[a].connector = WalletConnectID
    /\ emitted["connecting"] + emitted["display_uri:empty"]
          + emitted["display_uri:uri"] < MaxMsgs
    /\ \E kind \in MessageKinds :
          Assign(EmitTo([Cur EXCEPT !.emitted[kind] = @ + 1], listeners,
                        Payload(kind, a)))

\* the pairing attempt of call c completes
PairingFulfilled(c) ==
    /\ pairing[c].state = "pending"
    /\ Assign(pairingFulfilled(Cur, c))

\* the pairing attempt of call c fails
PairingRejected(c) ==
    /\ pairing[c].state = "pending"
    /\ Assign(pairingRejected(Cur, c))

\* the response to a createSession request issued by connect(uri)
ConnectSessionResponse(r) ==
    /\ r \in inflight
    /\ r.cont = "connect"
    /\ \E outcome \in FetchOutcomes :
          Assign(connectResume(Respond(Cur, r, outcome), r.owner,
                               createSessionResult(outcome, r)))

NextConnect ==
    \/ \E c \in Calls : Connect(c)
    \/ \E c \in Calls : WagmiConnect(c)
    \/ \E a \in Calls : EmitMessage(a)
    \/ \E c \in Calls : PairingFulfilled(c)
    \/ \E c \in Calls : PairingRejected(c)
    \/ \E r \in inflight : ConnectSessionResponse(r)

SpecConnect == InitConnect /\ [][NextConnect]_vars

\* ------------------------------------------- attempts one after another
\* the dApp starts a pairing attempt only when no earlier one is pending:
\* every earlier attempt has completed or failed
NoAttemptPending == \A d \in Calls : pairing[d].state # "pending"

ConnectAlone(c) == NoAttemptPending /\ Connect(c)

WagmiConnectAlone(c) == NoAttemptPending /\ WagmiConnect(c)

NextAttempts ==
    \/ \E c \in Calls : ConnectAlone(c)
    \/ \E c \in Calls : WagmiConnectAlone(c)
    \/ \E a \in Calls : EmitMessage(a)
    \/ \E c \in Calls : PairingFulfilled(c)
    \/ \E c \in Calls : PairingRejected(c)
    \/ \E r \in inflight : ConnectSessionResponse(r)

SpecAttempts == InitConnect /\ [][NextAttempts]_vars

\* ------------------------------------------ connecting while injected
\* the page runs injected, by configuration or inside the wallet host's
\* frame; the wagmiConfig may also hold the walletConnect connector alone
InitInjectedConnect ==
    /\ InitProgram
    /\ config \in [disableAutoOpenTgBot : {FALSE},
                    openTgBotOnDesktop : {FALSE},
                    enableSmartSession : {FALSE},
                    disableSmartSessionFailSafe : {FALSE},
                    usingEmbeddedMode : {FALSE},
                    usingInjectedMode : BOOLEAN,
                    wagmiConfig : WagmiConfigs
                                      \cup {WagmiConfig({WalletConnectID})}]
    /\ platform = "android"
    /\ ancestorIsWeb \in BOOLEAN
    /\ isInjected

\* no walletConnect pairing starts, so its emitter has nothing to report
NextInjectedConnect ==
    \/ \E c \in Calls : Connect(c)
    \/ \E c \in Calls : WagmiConnect(c)
    \/ \E c \in Calls : PairingFulfilled(c)
    \/ \E c \in Calls : PairingRejected(c)

SpecInjectedConnect == InitInjectedConnect /\ [][NextInjectedConnect]_vars

\* ------------------------------------------------ session-creating calls
\* configurations of the runs of connect(uri) and the open* operations
InitSession ==
    /\ InitProgram
    /\ config \in [disableAutoOpenTgBot : BOOLEAN,
                    openTgBotOnDesktop : {FALSE},
                    enableSmartSession : {FALSE},
                    disableSmartSessionFailSafe : {FALSE},
                    usingEmbeddedMode : {FALSE},
                    usingInjectedMode : BOOLEAN,
                    wagmiConfig : {WagmiConfig(ConnectorIDs)}]
    /\ platform \in {"tdesktop", "android"}
    /\ ancestorIsWeb = FALSE

\* openTgBot(force)
OpenTgBot(c) ==
    /\ CanCall(c)
    /\ \E force \in BOOLEAN :
          Assign(openTgBot([Cur EXCEPT !.op[c] =
                       [Op("openTgBot") EXCEPT !.force = force]], c, force))

\* openTgBotForInteract(force)
OpenTgBotForInteract(c) ==
    /\ CanCall(c)
    /\ \E force \in BOOLEAN :
          Assign(openTgBotForInteract(
              [Cur EXCEPT !.op[c] =
                       [Op("openTgBotForInteract") EXCEPT !.force = force]],
              c, "open", force))

\* openTgBotScreen(screen, force, extraData); "settings" is a value outside
\* the TgBotScreen enum
OpenTgBotScreen(c) ==
    /\ CanCall(c)
    /\ \E screen \in TgBotScreens \cup {"settings"}, force \in BOOLEAN :
          Assign(openTgBotScreen(
              [Cur EXCEPT !.op[c] =
                       [Op("openTgBotScreen") EXCEPT !.force = force]],
              c, "open", screen, force, FALSE))

\* openTgBotWithSessionData(data, force)
OpenTgBotWithSessionData(c) ==
    /\ CanCall(c)
    /\ \E interact \in BOOLEAN, force \in BOOLEAN :
          Assign(openTgBotWithSessionData(
              [Cur EXCEPT !.op[c] =
                       [Op("openTgBotWithSessionData")
                           EXCEPT !.force = force]],
              c, "open", SessionData(NoURI, "", interact), force))

\* the response to a createSession request issued by an open* operation
\* (cont = "open") or by sendTransaction's interact hand-off ("interact")
OpenSessionResponse(r) ==
    /\ r \in inflight
    /\ r.cont \in {"open", "interact"}
    /\ \E outcome \in FetchOutcomes :
          Assign(openResume(Respond(Cur, r, outcome), r.owner, r.cont,
                            createSessionResult(outcome, r), r.force))

NextSession ==
    \/ \E c \in Calls : ConnectWithURI(c)
    \/ \E c \in Calls : OpenTgBot(c)
    \/ \E c \in Calls : OpenTgBotForInteract(c)
    \/ \E c \in Calls : OpenTgBotScreen(c)
    \/ \E c \in Calls : OpenTgBotWithSessionData(c)
    \/ \E r \in inflight : ConnectSessionResponse(r)
    \/ \E r \in inflight : OpenSessionResponse(r)

SpecSession == InitSession /\ [][NextSession]_vars

\* ------------------------------------------------------ transaction runs
InitTx ==
    /\ InitProgram
    /\ config \in [disableAutoOpenTgBot : BOOLEAN,
                    openTgBotOnDesktop : {FALSE},
                    enableSmartSession : BOOLEAN,
                    disableSmartSessionFailSafe : BOOLEAN,
                    usingEmbeddedMode : {FALSE},
                    usingInjectedMode : {FALSE},
                    wagmiConfig : {NoWagmiConfig, WagmiConfig(ConnectorIDs)}]
    /\ platform = "android"
    /\ ancestorIsWeb = FALSE

\* sendTransaction(parameters); the parameters name both the sender
\* account and the chain, or neither
SendTransaction(c) ==
    /\ CanCall(c)
    /\ \E explicit \in BOOLEAN :
          Assign(sendTransaction(
              [Cur EXCEPT !.op[c] = [Op("sendTransaction") EXCEPT
                                         !.account = explicit,
                                         !.chainId = explicit]], c))

\* the response to a find-session request
FindSessionResponse(r) ==
    /\ r \in inflight
    /\ r.cont = "find"
    /\ \E outcome \in FetchOutcomes :
          Assign(afterFind(Respond(Cur, r, outcome), r.owner,
                           findSmartSessionResult(outcome)))

\* the response to a smart-session send-transaction request
SmartSendResponse(r) ==
    /\ r \in inflight
    /\ r.cont = "smartSend"
    /\ \E outcome \in FetchOutcomes :
          Assign(afterSmartSend(Respond(Cur, r, outcome), r.owner,
                     sendSmartSessionTransactionResult(outcome, r.owner)))

\* the chain-RPC send of call c succeeds
RpcFulfilled(c) ==
    /\ tx[c] = "rpc"
    /\ Assign(rpcSettled(Cur, c, TRUE))

\* the chain-RPC send of call c fails
RpcRejected(c) ==
    /\ tx[c] = "rpc"
    /\ Assign(rpcSettled(Cur, c, FALSE))

NextTx ==
    \/ \E c \in Calls : SendTransaction(c)
    \/ \E r \in inflight : FindSessionResponse(r)
    \/ \E r \in inflight : SmartSendResponse(r)
    \/ \E r \in inflight : OpenSessionResponse(r)
    \/ \E c \in Calls : RpcFulfilled(c)
    \/ \E c \in Calls : RpcRejected(c)

SpecTx == InitTx /\ [][NextTx]_vars

\* ------------------------------------------------- writeContract runs
Contracts == {"0xC0ffee"}
FunctionNames == {"transfer"}
\* dataSuffix: absent or a hex string
DataSuffixes == {NoValue, Text(<<"0", "x", "b", "e">>)}

InitWrite ==
    /\ InitProgram
    /\ config \in [disableAutoOpenTgBot : BOOLEAN,
                    openTgBotOnDesktop : {FALSE},
                    enableSmartSession : BOOLEAN,
                    disableSmartSessionFailSafe : {FALSE},
                    usingEmbeddedMode : {FALSE},
                    usingInjectedMode : {FALSE},
                    wagmiConfig : {NoWagmiConfig, WagmiConfig(ConnectorIDs)}]
    /\ platform = "android"
    /\ ancestorIsWeb = FALSE

\* writeContract(parameters); the rest of the request names both the
\* sender account and the chain, or neither
WriteContract(c) ==
    /\ CanCall(c)
    /\ \E contract \in Contracts, functionName \in FunctionNames,
          dataSuffix \in DataSuffixes, explicit \in BOOLEAN :
          Assign(writeContract(
              [Cur EXCEPT !.op[c] = [Op("writeContract") EXCEPT
                                         !.address = contract,
                                         !.functionName = functionName,
                                         !.dataSuffix = dataSuffix,
                                         !.account = explicit,
                                         !.chainId = explicit]],
              c, [address |-> contract, functionName |-> functionName,
                  dataSuffix |-> dataSuffix]))

NextWrite ==
    \/ \E c \in Calls : WriteContract(c)
    \/ \E r \in inflight : FindSessionResponse(r)
    \/ \E r \in inflight : SmartSendResponse(r)
    \/ \E r \in inflight : OpenSessionResponse(r)
    \/ \E c \in Calls : RpcFulfilled(c)
    \/ \E c \in Calls : RpcRejected(c)

SpecWrite == InitWrite /\ [][NextWrite]_vars

\* ------------------------------------------ runs with auto-open disabled
InitAutoOpen ==
    /\ InitProgram
    /\ config \in [disableAutoOpenTgBot : {TRUE},
                    openTgBotOnDesktop : {FALSE},
                    enableSmartSession : BOOLEAN,
                    disableSmartSessionFailSafe : {FALSE},
                    usingEmbeddedMode : {FALSE},
                    usingInjectedMode : {FALSE},
                    wagmiConfig : {WagmiConfig(ConnectorIDs)}]
    /\ platform = "android"
    /\ ancestorIsWeb = FALSE

\* the operations that hand off by themselves when auto-open is enabled
NextAutoOpen ==
    \/ \E c \in Calls : Connect(c)
    \/ \E c \in Calls : ConnectWithURI(c)
    \/ \E a \in Calls : EmitMessage(a)
    \/ \E c \in Calls : PairingFulfilled(c)
    \/ \E c \in Calls : PairingRejected(c)
    \/ \E r \in inflight : ConnectSessionResponse(r)
    \/ \E c \in Calls : SendTransaction(c)
    \/ \E c \in Calls : WriteContract(c)
    \/ \E r \in inflight : FindSessionResponse(r)
    \/ \E r \in inflight : SmartSendResponse(r)
    \/ \E c \in Calls : RpcFulfilled(c)
    \/ \E c \in Calls : RpcRejected(c)

SpecAutoOpen == InitAutoOpen /\ [][NextAutoOpen]_vars

\* -------------------------------------------------------- hand-off runs
\* every combination of the signals openTgBotWithSession decides on
InitHandoff ==
    /\ InitProgram
    /\ config \in [disableAutoOpenTgBot : {FALSE},
                    openTgBotOnDesktop : BOOLEAN,
                    enableSmartSession : {FALSE},
                    disableSmartSessionFailSafe : {FALSE},
                    usingEmbeddedMode : BOOLEAN,
                    usingInjectedMode : BOOLEAN,
                    wagmiConfig : {WagmiConfig(ConnectorIDs)}]
    /\ platform \in Platforms
    /\ ancestorIsWeb = FALSE

\* a 'message' event on the window while the Drawer exists; one sent from
\* the wallet host's origin comes from the document in the iframe
DrawerWindowMessage ==
    /\ drawer.instance
    /\ \E origin \in MessageOrigins, from \in MessageSenders,
          m \in DrawerMethods :
          /\ origin = "webURL" => drawer.loaded
          /\ onWindowMessage(drawer, origin, from, m) # drawer
          /\ Assign([Cur EXCEPT !.drawer =
                         onWindowMessage(@, origin, from, m)])

\* the interval of the openURL call for session sid finds iframeReady set
DrawerTick(sid) ==
    /\ sid \in drawer.waiting
    /\ drawer.iframeReady
    /\ Assign([Cur EXCEPT !.drawer = DrawerInterval(@, sid)])

\* the wallet host's app inside the iframe navigates to another of its pages
OverlayNavigates ==
    /\ drawer.loaded /\ ~drawer.moved
    /\ Assign([Cur EXCEPT !.drawer.moved = TRUE])

NextHandoff ==
    \/ \E c \in Calls : OpenTgBotWithSessionData(c)
    \/ \E r \in inflight : OpenSessionResponse(r)
    \/ DrawerWindowMessage
    \/ \E sid \in drawer.waiting : DrawerTick(sid)
    \/ OverlayNavigates

SpecHandoff == InitHandoff /\ [][NextHandoff]_vars

\* ------------------------------------------------- the overlay's window
\* several StavaxAccount instances built with the same options run on the
\* page; Drawer._instance is a static field, one for all of them; the
\* document in the iframe stays on the page it was given
MaxInstances == 2
Instances == 1..MaxInstances

InitOverlay ==
    /\ InitProgram
    /\ config \in [disableAutoOpenTgBot : {FALSE},
                    openTgBotOnDesktop : {FALSE},
                    enableSmartSession : {FALSE},
                    disableSmartSessionFailSafe : {FALSE},
                    usingEmbeddedMode : BOOLEAN,
                    usingInjectedMode : {FALSE},
                    wagmiConfig : {WagmiConfig(ConnectorIDs)}]
    /\ platform \in {"undefined", "android"}
    /\ ancestorIsWeb = FALSE

\* openTgBotWithSessionData(data) called on instance i
HandOffBy(i, c) ==
    /\ CanCall(c)
    /\ Assign(openTgBotWithSessionData(
           [Cur EXCEPT !.op[c] =
                    [Op("openTgBotWithSessionData") EXCEPT !.by = i]],
           c, "open", SessionData(NoURI, "", FALSE), FALSE))

OverlayMessage(origin, from, method) ==
    [origin |-> origin, from |-> from, method |-> method]

\* some window posts a message to the page's window; one sent from the
\* wallet host's origin comes from the document in the iframe
PostToPage ==
    /\ winPosted < MaxWinMsgs
    /\ \E origin \in MessageOrigins, from \in MessageSenders,
          m \in DrawerMethods \cup {NavigationMethod} :
          /\ origin = "webURL" => drawer.loaded
          /\ OverlayMessage(origin, from, m) \notin winQueue
          /\ Assign([Cur EXCEPT
                 !.winQueue = @ \cup {OverlayMessage(origin, from, m)},
                 !.winPosted = @ + 1])

\* the 'message' event e fires on the window: the listener the Drawer's
\* constructor added, if there is one, handles it
PageMessage(e) ==
    /\ e \in winQueue
    /\ Assign([Cur EXCEPT
           !.winQueue = @ \ {e},
           !.drawer = IF @.listeners = 0
                      THEN @
                      ELSE onWindowMessage(@, e.origin, e.from, e.method)])

NextOverlay ==
    \/ \E i \in Instances, c \in Calls : HandOffBy(i, c)
    \/ \E r \in inflight : OpenSessionResponse(r)
    \/ PostToPage
    \/ \E e \in winQueue : PageMessage(e)
    \/ \E sid \in drawer.waiting : DrawerTick(sid)

SpecOverlay == InitOverlay /\ [][NextOverlay]_vars

\* ------------------------------------------------- delayed hand-off runs
InitDelay ==
    /\ InitProgram
    /\ config \in [disableAutoOpenTgBot : {FALSE},
                    openTgBotOnDesktop : {FALSE},
                    enableSmartSession : {FALSE},
                    disableSmartSessionFailSafe : {FALSE},
                    usingEmbeddedMode : {FALSE},
                    usingInjectedMode : BOOLEAN,
                    wagmiConfig : {WagmiConfig(ConnectorIDs)}]
    /\ platform = "android"
    /\ ancestorIsWeb = FALSE

\* openTgBotForInteractWithDelay(delayMs, force); a timer is only armed
\* when the clock can still reach its due time
OpenTgBotForInteractWithDelay(c) ==
    /\ CanCall(c)
    /\ \E delayMs \in 1..MaxDelay, force \in BOOLEAN :
          /\ now + delayMs <= MaxTime
          /\ Assign(openTgBotForInteractWithDelay(
                 [Cur EXCEPT !.op[c] = [Op("openTgBotForInteractWithDelay")
                                           EXCEPT !.force = force]],
                 c, delayMs, force))

\* time passes
Tick ==
    /\ now < MaxTime
    /\ Assign([Cur EXCEPT !.now = @ + 1])

\* the event loop runs the timeout of call c, not before it is due
TimerFires(c) ==
    /\ timers[c].state = "armed"
    /\ now >= timers[c].due
    /\ Assign(timeoutCallback(Cur, c))

\* the dApp invokes the cancellation function it got from call c
CancelTimer(c) ==
    /\ timers[c].state # "none"
    /\ timers[c].cancels < MaxCancels
    /\ Assign(clearTimeout(Cur, c))

NextDelay ==
    \/ \E c \in Calls : OpenTgBotForInteractWithDelay(c)
    \/ Tick
    \/ \E c \in Calls : TimerFires(c)
    \/ \E c \in Calls : CancelTimer(c)
    \/ \E r \in inflight : OpenSessionResponse(r)

SpecDelay == InitDelay /\ [][NextDelay]_vars

\* ---------------------------------------------- injected-provider runs
InitInjected ==
    /\ InitProgram
    /\ config \in [disableAutoOpenTgBot : {FALSE},
                    openTgBotOnDesktop : {FALSE},
                    enableSmartSession : {FALSE},
                    disableSmartSessionFailSafe : {FALSE},
                    usingEmbeddedMode : {FALSE},
                    usingInjectedMode : BOOLEAN,
                    wagmiConfig : {WagmiConfig(ConnectorIDs)}]
    /\ platform = "android"
    /\ ancestorIsWeb \in BOOLEAN

\* request(platform, request)
ProviderRequest(c) ==
    /\ CanCall(c)
    /\ Assign(request([Cur EXCEPT !.op[c] = Op("request")], c))

\* ids a 'message' event may carry: those of the requests made so far and
\* one that belongs to no request
MessageIds == {reqId[c] : c \in Calls} \cup {NoKey}

\* some window (the wallet host, another frame, or the page itself when it
\* is its own parent) posts a message to the page's window
PostToWindow ==
    /\ winPosted < MaxWinMsgs
    /\ \E id \in MessageIds, from \in MessageSenders, eventType \in EventTypes,
          success \in BOOLEAN :
          /\ WindowMessage(id, from, eventType, success) \notin winQueue
          /\ Assign([Cur EXCEPT
                 !.winQueue = @ \cup {WindowMessage(id, from, eventType,
                                                    success)},
                 !.winPosted = @ + 1])

\* the 'message' event e fires on the window
DeliverMessage(e) ==
    /\ e \in winQueue
    /\ Assign(DispatchTo([Cur EXCEPT !.winQueue = @ \ {e}], winListeners, e))

NextInjected ==
    \/ \E c \in Calls : ProviderRequest(c)
    \/ PostToWindow
    \/ \E e \in winQueue : DeliverMessage(e)

SpecInjected == InitInjected /\ [][NextInjected]_vars

\* ------------------------------------------- EthereumProvider runs
Addresses == {"0xA11ce"}
\* params[0].chainId of a wallet_switchEthereumChain request; the last one
\* has no hexadecimal digit
ChainParams == {<<"0", "x", "1">>, <<"0", "x", "8", "9">>, <<"0", "x">>}
\* the methods requested: those the switch answers itself, the one it
\* refuses, two of those it relays and one it does not know
Methods == LocalMethods \cup {"wallet_requestPermissions",
                              "eth_requestAccounts", "personal_sign",
                              "eth_getBalance"}

\* the storage may hold the record an earlier page load left
InitProvider ==
    /\ InitCore
    /\ InitConstructed
    /\ InitAlone
    /\ ethStorage \in [evmAddress : {""} \cup Addresses,
                       chainId : {<<>>, <<"1", "3", "7">>}]
    /\ customProviderFn \in BOOLEAN
    /\ config \in [disableAutoOpenTgBot : {FALSE},
                    openTgBotOnDesktop : {FALSE},
                    enableSmartSession : {FALSE},
                    disableSmartSessionFailSafe : {FALSE},
                    usingEmbeddedMode : {FALSE},
                    usingInjectedMode : BOOLEAN,
                    wagmiConfig : {WagmiConfig(ConnectorIDs)}]
    /\ platform = "android"
    /\ ancestorIsWeb \in BOOLEAN

\* window.ethereum.request(data)
EthRequest(c) ==
    /\ CanCall(c)
    /\ \E method \in Methods, param \in ChainParams, ok \in BOOLEAN :
          /\ method # "wallet_switchEthereumChain"
                 => param = <<"0", "x", "1">>
          /\ (method \in LocalMethods \cup RelayedMethods
                 \/ method = "wallet_requestPermissions"
                 \/ ~customProviderFn \/ isInjected) => ok
          /\ LET data == [method |-> method, param |-> param]
             IN  Assign(EthereumProvider_request(
                     [Cur EXCEPT !.op[c] = [Op("ethRequest") EXCEPT
                                               !.method = method,
                                               !.param = param]],
                     c, data, ok))

\* the replies to relayed requests are those of the injected-provider runs
NextProvider ==
    \E c \in Calls : EthRequest(c)

SpecProvider == InitProvider /\ [][NextProvider]_vars


\* ----------------------------------------------------- construction runs
MaxIdLen == 2
IdChars == {"a", "-", "=", "&", "%", " "}
\* session ids: 'abc123' and every string of IdChars up to MaxIdLen long
SessionIds ==
    {<<"a", "b", "c", "1", "2", "3">>}
        \cup UNION {[1..n -> IdChars] : n \in 0..MaxIdLen}

\* each field absent, falsy though present, or given
Options ==
    [projectID : {NoValue, Text(<<>>), Text(<<"project-1">>)},
     apiURL : {NoValue, Text(<<>>), Text(<<"https://api.example.org">>)},
     tgBotWebAppURL : {NoValue, Text(<<>>),
                       Text(<<"https://t.me/example_bot/app">>)},
     webURL : {NoValue, Text(<<>>), Text(<<"https://web.example.org">>)},
     requestTimeout : {NoValue, Num(0), Num(5000)}]

\* the flags of the configuration play no part in these runs
InitConfig ==
    /\ InitCore
    /\ InitEthereum
    /\ InitAlone
    /\ config = [disableAutoOpenTgBot |-> FALSE,
                 openTgBotOnDesktop |-> FALSE,
                 enableSmartSession |-> FALSE,
                 disableSmartSessionFailSafe |-> FALSE,
                 usingEmbeddedMode |-> FALSE,
                 usingInjectedMode |-> FALSE,
                 wagmiConfig |-> NoWagmiConfig]
    /\ platform = "android"
    /\ ancestorIsWeb = FALSE
    /\ options \in Options
    /\ instance = NoValue
    /\ botURL = NoValue

programVars == <<envVars, connVars, netVars, uiVars, txVars, timeVars,
                 winVars, provVars, contexts>>

\* new StavaxAccount(options)
Construct ==
    /\ instance = NoValue
    /\ instance' = constructor(options)
    /\ UNCHANGED <<options, botURL, programVars>>

\* getTgBotWebAppURL(session) on the constructed instance
GetTgBotWebAppURL ==
    /\ instance # NoValue
    /\ instance.state = "constructed"
    /\ \E id \in SessionIds :
          botURL' = [session |-> [id |-> id],
                     result |-> TgBotWebAppURL(instance.config, [id |-> id])]
    /\ UNCHANGED <<options, instance, programVars>>

NextConfig ==
    \/ Construct
    \/ GetTgBotWebAppURL

SpecConfig == InitConfig /\ [][NextConfig]_vars

\* ------------------------------------- contexts sharing the storage
\* Browsing contexts of one origin share localStorage and run in parallel;
\* within getSDKDeviceID another context may act between getItem and
\* setItem.
MaxContexts == 3
MaxReads == 3
Contexts == 1..MaxContexts
IdleContext == [pc |-> "idle", key |-> NoKey, returned |-> <<>>]
InitShared ==
    /\ InitCore
    /\ InitEthereum
    /\ InitConstructed
    /\ config = [disableAutoOpenTgBot |-> FALSE,
                 openTgBotOnDesktop |-> FALSE,
                 enableSmartSession |-> FALSE,
                 disableSmartSessionFailSafe |-> FALSE,
                 usingEmbeddedMode |-> FALSE,
                 usingInjectedMode |-> FALSE,
                 wagmiConfig |-> NoWagmiConfig]
    /\ platform = "android"
    /\ ancestorIsWeb = FALSE
    /\ contexts = [x \in Contexts |-> IdleContext]

otherVars == <<envVars, connVars, inflight, sessions, sessReqs, uiVars,
               txVars, timeVars, winVars, provVars, ctorVars>>

\* getSDKDeviceID in context x: let key = localStorage.getItem(...);
\* if (key) return key
GetItem(x) ==
    /\ contexts[x].pc = "idle"
    /\ Len(contexts[x].returned) < MaxReads
    /\ contexts' = [contexts EXCEPT
           ![x] = IF localStorage # NoKey
                  THEN [@ EXCEPT !.key = localStorage,
                                 !.returned = Append(@, localStorage)]
                  ELSE [@ EXCEPT !.key = NoKey, !.pc = "generate"]]
    /\ UNCHANGED <<localStorage, randoms, otherVars>>

\* getSDKDeviceID in context x: key = randomString(64);
\* localStorage.setItem(..., key); return key
SetItem(x) ==
    /\ contexts[x].pc = "generate"
    /\ LET key == randomString(64, randoms + 1)
       IN  /\ randoms' = randoms + 1
           /\ localStorage' = key
           /\ contexts' = [contexts EXCEPT
                  ![x] = [@ EXCEPT !.key = key, !.pc = "idle",
                                   !.returned = Append(@, key)]]
    /\ UNCHANGED otherVars

NextShared ==
    \/ \E x \in Contexts : GetItem(x)
    \/ \E x \in Contexts : SetItem(x)

SpecShared == InitShared /\ [][NextShared]_vars

\* ------------------------------------------- requests never answered
\* connect(uri) and openTgBot calls while time passes; the backend answers
\* a request or leaves it unanswered.  _fetch arms no timer and passes
\* fetch() no abort signal, so no step ends a request that is not answered.
InitUnanswered ==
    /\ InitProgram
    /\ config \in [disableAutoOpenTgBot : BOOLEAN,
                    openTgBotOnDesktop : {FALSE},
                    enableSmartSession : {FALSE},
                    disableSmartSessionFailSafe : {FALSE},
                    usingEmbeddedMode : {FALSE},
                    usingInjectedMode : {FALSE},
                    wagmiConfig : {WagmiConfig(ConnectorIDs)}]
    /\ platform = "android"
    /\ ancestorIsWeb = FALSE

\* config.requestTimeout, in units of the clock
RequestTimeout == 1

\* for how long request r has been awaiting its response
Waited(st, r) == IF r.rid \in DOMAIN st.waited THEN st.waited[r.rid] ELSE 0

\* time passes, for the requests in flight too
Elapse ==
    /\ now < MaxTime
    /\ Assign([Cur EXCEPT !.now = @ + 1,
                          !.waited = [rid \in {r.rid : r \in inflight} |->
                                         Waited(Cur, CHOOSE r \in inflight :
                                                         r.rid = rid) + 1]])

NextUnanswered ==
    \/ \E c \in Calls : ConnectWithURI(c)
    \/ \E c \in Calls : OpenTgBot(c)
    \/ \E r \in inflight : ConnectSessionResponse(r)
    \/ \E r \in inflight : OpenSessionResponse(r)
    \/ Elapse

SpecUnanswered == InitUnanswered /\ [][NextUnanswered]_vars

\* --------------------------------- the public operations of one instance
\* the instance as its constructor left it: the options had a projectID,
\* and the fields the constructor defaults were absent or given
GivenOptions ==
    {o \in Options :
        /\ o.projectID = Text(<<"project-1">>)
        /\ o.apiURL = NoValue /\ o.tgBotWebAppURL = NoValue
        /\ o.webURL \in {NoValue, Text(<<"https://web.example.org">>)}
        /\ o.requestTimeout \in {NoValue, Num(5000)}}

InitPublic ==
    /\ InitCore
    /\ InitEthereum
    /\ InitAlone
    /\ config \in [disableAutoOpenTgBot : BOOLEAN,
                    openTgBotOnDesktop : {FALSE},
                    enableSmartSession : {FALSE},
                    disableSmartSessionFailSafe : {FALSE},
                    usingEmbeddedMode : {FALSE},
                    usingInjectedMode : {FALSE},
                    wagmiConfig : {NoWagmiConfig, WagmiConfig(ConnectorIDs)}]
    /\ platform = "android"
    /\ ancestorIsWeb = FALSE
    /\ options \in GivenOptions
    /\ instance = constructor(options)
    /\ botURL = NoValue

\* setWagmiConfig(wagmiConfig); it returns at once
SetWagmiConfig(c) ==
    /\ CanCall(c)
    /\ \E w \in WagmiConfigs \ {NoWagmiConfig} :
          /\ config' = setWagmiConfig(config, w)
          /\ op' = [op EXCEPT ![c] = [Op("setWagmiConfig")
                                         EXCEPT !.wagmiConfig = w]]
          /\ ret' = [ret EXCEPT ![c] = Settle(@, Resolved(NoValue))]
    /\ UNCHANGED <<platform, ancestorIsWeb, customProviderFn, ctorVars,
                   contexts, startP, cb, pairing, pairStarts, listeners,
                   emitted, randoms, inflight, sessions, sessReqs,
                   localStorage, handoffs, linkCalls, tgLinks, drawer, tx,
                   rpcSends, smartSends, findReqs, found, smartTxs, now,
                   timers, reqId, parentMsgs, winListeners, winQueue,
                   winPosted, ethStorage, waited>>

\* the run holds at most MaxOps operations besides its setWagmiConfig calls
MaxOps == 1
CanOperate ==
    Cardinality({c \in Calls :
                    op[c].kind \notin {"none", "setWagmiConfig"}}) < MaxOps

NextPublic ==
    \/ \E c \in Calls : SetWagmiConfig(c)
    \/ CanOperate /\ \E c \in Calls : Connect(c)
    \/ CanOperate /\ \E c \in Calls : WagmiConnect(c)
    \/ CanOperate /\ \E c \in Calls : ConnectWithURI(c)
    \/ CanOperate /\ \E c \in Calls : SendTransaction(c)
    \/ CanOperate /\ \E c \in Calls : WriteContract(c)
    \/ CanOperate /\ \E c \in Calls : OpenTgBot(c)
    \/ CanOperate /\ \E c \in Calls : OpenTgBotForInteract(c)
    \/ CanOperate /\ \E c \in Calls : OpenTgBotScreen(c)
    \/ CanOperate /\ \E c \in Calls : OpenTgBotWithSessionData(c)
    \/ CanOperate /\ \E c \in Calls : ProviderRequest(c)
    \/ \E a \in Calls : EmitMessage(a)
    \/ \E c \in Calls : PairingFulfilled(c)
    \/ \E c \in Calls : PairingRejected(c)
    \/ \E r \in inflight : ConnectSessionResponse(r)
    \/ \E r \in inflight : OpenSessionResponse(r)
    \/ \E c \in Calls : RpcFulfilled(c)
    \/ \E c \in Calls : RpcRejected(c)

SpecPublic == InitPublic /\ [][NextPublic]_vars

\* ================================================================ claims
RequestsOf(c) == {r \in inflight : r.owner = c}
SessionsOf(c) == {x \in sessions : x.id[1] = c}
Registered(c) == \E i \in DOMAIN listeners : listeners[i] = c
OnlyCall(c) == \A d \in Calls : d # c => op[d].kind = "none"
MissingURIError == Err("cannot get wallet connect URI")
OpenKinds == {"openTgBot", "openTgBotForInteract", "openTgBotScreen",
              "openTgBotWithSessionData"}

\* the listener of call c has handled a 'display_uri' event
Handled(c) == pairing[c].connector = WalletConnectID /\ ~Registered(c)

\* C1: a connect()/wagmiConnect() call without a uri issues at most one
\* createSession request and attempts at most one hand-off, however many
\* 'display_uri' events the connector emits; it issues exactly one request
\* once its listener has handled a 'display_uri' event that carries a uri.
C1_OneSessionPerPairing ==
    \A c \in Calls :
        op[c].kind \in {"connect", "wagmiConnect"} =>
            /\ sessReqs[c] <= 1
            /\ handoffs[c] <= 1
            /\ (Handled(c) /\ startP[c] # Rejected(MissingURIError))
                   <=> sessReqs[c] = 1

\* two 'display_uri' events with a uri were emitted during the only call's
\* attempt, the second before the first createSession response arrived
C1_Witness ==
    \E c \in Calls :
        /\ op[c].kind = "connect" /\ OnlyCall(c)
        /\ emitted["display_uri:uri"] >= 2
        /\ sessReqs[c] = 1 /\ RequestsOf(c) # {}

\* C2: connect(uri) issues one createSession request whose data.uri is the
\* uri; once the backend has created the session the call is resolved with
\* that session and, unless disableAutoOpenTgBot is set, exactly one
\* hand-off has been attempted.
C2_ConnectWithURI ==
    \A c \in Calls :
        op[c].kind = "connectURI" =>
            /\ sessReqs[c] = 1
            /\ \A r \in RequestsOf(c) :
                   r.path = "/wallet-sessions/new" /\ r.data.uri = op[c].uri
            /\ handoffs[c] <= 1
            /\ ret[c].state = "resolved" => ret[c].value \in SessionsOf(c)
            /\ SessionsOf(c) # {} =>
                   /\ ret[c].state = "resolved"
                   /\ ret[c].value.data.uri = op[c].uri
                   /\ handoffs[c] = IF config.disableAutoOpenTgBot THEN 0 ELSE 1

C2_Witness ==
    \E c \in Calls :
        /\ op[c].kind = "connectURI" /\ ret[c].state = "resolved"
        /\ handoffs[c] = 1 /\ ret[c].value.id \in linkCalls

\* the backend has found a SmartSession for call c and the submission
\* against it has ended without a transaction hash
SubmitFailed(c) ==
    /\ c \in found /\ smartSends[c] >= 1 /\ c \notin smartTxs
    /\ \A r \in RequestsOf(c) : r.cont # "smartSend"

\* find-session has been answered for call c without a SmartSession
FindMissed(c) ==
    /\ findReqs[c] >= 1 /\ c \notin found
    /\ \A r \in RequestsOf(c) : r.cont # "find"

RpcOutcomes(c) == {Resolved(Hash("rpc", c)), Rejected(Err("rpc failed"))}

\* C3: when the backend has executed the transaction of a sendTransaction
\* call through a SmartSession, the call is resolved with the returned
\* hash; the chain-RPC send is never called, no interact session is
\* created and no hand-off is attempted.
C3_FastPath ==
    \A c \in Calls :
        c \in smartTxs =>
            /\ ret[c] = Resolved(Hash("smart", c))
            /\ rpcSends[c] = 0
            /\ sessReqs[c] = 0 /\ handoffs[c] = 0

C3_Witness ==
    \E c \in Calls :
        /\ c \in smartTxs /\ tx[c] = "done"
        /\ ~config.disableAutoOpenTgBot
        /\ ~config.disableSmartSessionFailSafe

StandardSend(c) ==
    /\ rpcSends[c] = 1
    /\ tx[c] \in {"rpc", "done"}
    /\ tx[c] = "rpc" => ret[c] = Pending
    /\ tx[c] = "done" => ret[c] \in RpcOutcomes(c)

\* C5 as stated: without disableSmartSessionFailSafe, a failed submission
\* against a matching SmartSession falls through to the standard path,
\* which calls the chain-RPC send exactly once and returns its outcome.
C5_Original ==
    \A c \in Calls :
        (~config.disableSmartSessionFailSafe /\ SubmitFailed(c)) =>
            StandardSend(c)

\* C5 as amended: the same, on an instance that has a wagmiConfig; on an
\* instance without one the standard path rejects with 'Missing
\* wagmiConfig' and the chain-RPC send is not called.
C5_FailSafeFallsThrough ==
    \A c \in Calls :
        (~config.disableSmartSessionFailSafe /\ SubmitFailed(c)) =>
            IF config.wagmiConfig.present
            THEN StandardSend(c)
            ELSE /\ ret[c] = Rejected(Err("Missing wagmiConfig"))
                 /\ rpcSends[c] = 0

C5_Witness ==
    \E c \in Calls :
        /\ ~config.disableSmartSessionFailSafe /\ SubmitFailed(c)
        /\ config.wagmiConfig.present
        /\ ret[c] = Resolved(Hash("rpc", c))

\* C6 as stated: when find-session returns no SmartSession, sendTransaction
\* calls the chain-RPC send exactly once and never calls the smart-session
\* send-transaction endpoint, whatever disableSmartSessionFailSafe is.
C6_Original ==
    \A c \in Calls :
        FindMissed(c) => StandardSend(c) /\ smartSends[c] = 0

\* C6 as amended: the same, on an instance that has a wagmiConfig; on an
\* instance without one the standard path rejects with 'Missing
\* wagmiConfig', and neither the chain-RPC send nor the send-transaction
\* endpoint is called.
C6_NoMatchStandardPath ==
    \A c \in Calls :
        FindMissed(c) =>
            /\ smartSends[c] = 0
            /\ IF config.wagmiConfig.present
               THEN StandardSend(c)
               ELSE /\ ret[c] = Rejected(Err("Missing wagmiConfig"))
                    /\ rpcSends[c] = 0

C6_Witness ==
    \E c \in Calls :
        /\ FindMissed(c) /\ config.disableSmartSessionFailSafe
        /\ config.wagmiConfig.present /\ tx[c] = "done"

\* C7 as stated: when the pairing started by connect() fails before the
\* call has seen any 'display_uri' event, the promise connect() returned
\* is rejected.
C7_PairingFailureRejects ==
    \A c \in Calls :
        /\ op[c].kind = "connect"
        /\ pairing[c].state = "rejected"
        /\ (Registered(c) \/ pairing[c].connector = ProviderRDNS)
        => ret[c].state = "rejected"

C9_EmptyURIStep ==
    \A c \in Calls :
        (Registered(c)
           /\ emitted'["display_uri:empty"] = emitted["display_uri:empty"] + 1)
        => /\ startP'[c] = Rejected(MissingURIError)
           /\ ret'[c] = Settle(ret[c], Rejected(MissingURIError))
           /\ ret'[c].state # "pending"
           /\ sessReqs'[c] = sessReqs[c] /\ handoffs'[c] = handoffs[c]

C9_EmptyURIState ==
    \A c \in Calls :
        startP[c] = Rejected(MissingURIError) =>
            /\ sessReqs[c] = 0 /\ handoffs[c] = 0
            /\ ret[c].state # "pending"

CreateFailed(c) ==
    sessReqs[c] >= 1 /\ RequestsOf(c) = {} /\ SessionsOf(c) = {}

HandOff(r) ==
    /\ r \in inflight /\ r \notin inflight'
    /\ handoffs'[r.owner] = handoffs[r.owner] + 1

\* the injected-mode skip applies to the hand-off of r's session
InjectedSkip(r) == r.data.openForInteract /\ isInjected /\ ~r.force
EmbeddedApplies == isTelegram /\ config.usingEmbeddedMode
DrawerSids(d) == d.waiting \cup {p.sid : p \in d.posted}
NoSideEffect == UNCHANGED <<drawer, linkCalls, tgLinks>>
\* the Result openTgBotWithSession returned reaches the caller as a success
ReturnsSuccess(r) ==
    r.cont = "open" => ret'[r.owner] = Settle(ret[r.owner], Resolved(ResultOK))

\* C11: with usingEmbeddedMode inside Telegram, a hand-off that is not
\* skipped for injected mode opens the drawer with the session and leaves
\* the deep-link opener alone, whatever force, the platform and
\* openTgBotOnDesktop are; the deep-link opener is never invoked at all.
C11_EmbeddedStep ==
    \A r \in inflight :
        (HandOff(r) /\ EmbeddedApplies /\ ~InjectedSkip(r)) =>
            /\ drawer'.instance /\ drawer'.isOpen /\ drawer'.loaded
            /\ r.rid \notin DrawerSids(drawer)
            /\ r.rid \in DrawerSids(drawer')
            /\ UNCHANGED <<linkCalls, tgLinks>>
            /\ ReturnsSuccess(r)

C11_EmbeddedOpensDrawer ==
    /\ [](EmbeddedApplies => linkCalls = {} /\ tgLinks = {})
    /\ [][C11_EmbeddedStep]_vars

C11_Witness ==
    \E c \in Calls, s \in sessions :
        /\ EmbeddedApplies /\ s.id[1] = c /\ op[c].force
        /\ platform = "android" /\ config.openTgBotOnDesktop
        /\ s.id \in DrawerSids(drawer)

\* C12: with force set and usingEmbeddedMode off, every hand-off calls
\* openTelegramLink with the bot URL of the session, whatever the platform
\* and openTgBotOnDesktop are; the call reaches
\* Telegram.WebApp.openTelegramLink whenever the Telegram global exists.
C12_ForceStep ==
    \A r \in inflight :
        (HandOff(r) /\ r.force /\ ~config.usingEmbeddedMode) =>
            /\ getTgBotWebAppURL(Session(r.rid, r.data)).value \notin linkCalls
            /\ linkCalls' = linkCalls \cup
                   {getTgBotWebAppURL(Session(r.rid, r.data)).value}
            /\ tgLinks' = IF platform = "undefined" THEN tgLinks
                          ELSE tgLinks \cup {r.rid}
            /\ UNCHANGED drawer
            /\ ReturnsSuccess(r)

C12_ForceOpensLink == [][C12_ForceStep]_vars

C12_Witness ==
    \E c \in Calls, s \in sessions :
        /\ ~config.usingEmbeddedMode /\ s.id[1] = c /\ op[c].force
        /\ ~isTelegram /\ ~config.openTgBotOnDesktop
        /\ s.id \in linkCalls /\ ret[c] = Resolved(ResultOK)

\* C13: a hand-off of a session with openForInteract in injected mode
\* without force returns a success Result and touches neither the drawer
\* nor the deep-link opener.
C13_InjectedSkipStep ==
    \A r \in inflight :
        (HandOff(r) /\ InjectedSkip(r)) => NoSideEffect /\ ReturnsSuccess(r)

C13_InjectedInteractSkipped == [][C13_InjectedSkipStep]_vars

C13_Witness ==
    \E c \in Calls, s \in sessions :
        /\ isInjected /\ s.id[1] = c /\ s.data.openForInteract
        /\ ~op[c].force /\ handoffs[c] = 1
        /\ EmbeddedApplies /\ isTelegramMobile
        /\ ret[c] = Resolved(ResultOK)
        /\ drawer = NoDrawer /\ linkCalls = {}

\* C14: without force, when neither the injected skip nor embedded mode
\* applies, a hand-off calls openTelegramLink exactly when the page is
\* inside Telegram and the platform is mobile or openTgBotOnDesktop is set;
\* otherwise it has no side effect; it returns a success Result either way.
C14_UnforcedStep ==
    \A r \in inflight :
        (HandOff(r) /\ ~r.force /\ ~InjectedSkip(r) /\ ~EmbeddedApplies) =>
            /\ ReturnsSuccess(r)
            /\ IF isTelegram /\ (isTelegramMobile \/ config.openTgBotOnDesktop)
               THEN /\ r.rid \notin linkCalls
                    /\ linkCalls' = linkCalls \cup {r.rid}
                    /\ tgLinks' = tgLinks \cup {r.rid}
                    /\ UNCHANGED drawer
               ELSE NoSideEffect

C14_UnforcedDecision == [][C14_UnforcedStep]_vars

\* two unforced hand-offs on Telegram desktop with openTgBotOnDesktop
C14_Witness ==
    \E c \in Calls, s \in sessions :
        /\ ~EmbeddedApplies /\ s.id[1] = c /\ ~op[c].force
        /\ platform = "tdesktop" /\ config.openTgBotOnDesktop
        /\ s.id \in tgLinks

\* C15 as stated: every session message the drawer posts into the iframe
\* goes to a document that has signalled stv_app_ready.
C15_PostedAfterReady == \A p \in drawer.posted : p.ready

\* call c has taken the standard path with auto-open: its fire-and-forget
\* interact hand-off has issued its createSession request
InteractFired(c) == op[c].kind = "sendTransaction" /\ sessReqs[c] >= 1

\* C16 as stated: on the standard path with auto-open, the chain-RPC send
\* is invoked without waiting for the interact hand-off, and the outcome
\* of sendTransaction is the outcome of that send.
C16_Original ==
    \A c \in Calls : InteractFired(c) => StandardSend(c)

\* the step that fires the interact hand-off of call c also invokes the
\* chain-RPC send, and the step that ends the hand-off changes nothing of
\* the transaction
C16_Step ==
    /\ \A c \in Calls :
          (sessReqs'[c] = sessReqs[c] + 1 /\ config.wagmiConfig.present) =>
              rpcSends'[c] = rpcSends[c] + 1 /\ tx'[c] = "rpc"
    /\ \A r \in inflight :
          (r.cont = "interact" /\ r \notin inflight') =>
              UNCHANGED <<ret, tx, rpcSends, smartSends, findReqs>>

C16_State ==
    \A c \in Calls :
        InteractFired(c) =>
            /\ sessReqs[c] = 1 /\ handoffs[c] <= 1
            /\ IF config.wagmiConfig.present
               THEN StandardSend(c)
               ELSE /\ ret[c] = Rejected(Err("Missing wagmiConfig"))
                    /\ rpcSends[c] = 0

\* C16 as amended: on an instance that has a wagmiConfig, the standard path
\* with auto-open invokes the chain-RPC send in the step that fires the
\* interact hand-off, and the outcome of sendTransaction is the outcome of
\* that send whether the hand-off has succeeded, failed or not finished; on
\* an instance without a wagmiConfig the hand-off is fired and the call
\* rejects with 'Missing wagmiConfig' without a chain-RPC send.
C16_FireAndForget == [](C16_State) /\ [][C16_Step]_vars

\* the transaction has settled with the RPC outcome while the hand-off's
\* createSession request is still unanswered
C16_Witness ==
    \E c \in Calls :
        /\ InteractFired(c) /\ config.wagmiConfig.present
        /\ ret[c] = Resolved(Hash("rpc", c))
        /\ \E r \in RequestsOf(c) : r.cont = "interact"

\* the SmartSession lookup of call c has ended without a SmartSession:
\* building its body threw, or its request was answered without one
LookupMissed(c) ==
    /\ op[c].kind = "sendTransaction" /\ config.enableSmartSession
    /\ c \notin found
    /\ \A r \in RequestsOf(c) : r.cont # "find"

\* the body of the lookup of call c could not be built
LookupThrew(c) == LookupMissed(c) /\ findReqs[c] = 0

\* C17 as stated: a failed SmartSession lookup is absorbed and treated as
\* no match; sendTransaction proceeds to the standard chain-RPC send.
C17_Original ==
    \A c \in Calls : LookupMissed(c) => StandardSend(c)

\* C17 as amended: a failed SmartSession lookup is absorbed and treated as
\* no match: no submission is made and the standard path is taken, which
\* fires the interact hand-off unless disableAutoOpenTgBot is set and, on an
\* instance that has a wagmiConfig, calls the chain-RPC send once. When the
\* lookup failed because sender or chain had to be read from a wagmiConfig
\* that is missing, the standard path rejects with 'Missing wagmiConfig'.
C17_LookupFailureAbsorbed ==
    \A c \in Calls :
        LookupMissed(c) =>
            /\ smartSends[c] = 0
            /\ sessReqs[c] = IF config.disableAutoOpenTgBot THEN 0 ELSE 1
            /\ IF config.wagmiConfig.present
               THEN StandardSend(c)
               ELSE /\ ret[c] = Rejected(Err("Missing wagmiConfig"))
                    /\ rpcSends[c] = 0
            /\ LookupThrew(c) => ~config.wagmiConfig.present

C17_Witness ==
    \E c \in Calls :
        /\ LookupMissed(c) /\ findReqs[c] = 1
        /\ ~config.disableAutoOpenTgBot
        /\ ret[c] = Resolved(Hash("rpc", c))

Delayed(c) == op[c].kind = "openTgBotForInteractWithDelay"

\* an interact hand-off is attempted for call c exactly in the step that
\* runs its timeout: the timeout was pending, never cancelled, and due
C18_Step ==
    \A c \in Calls :
        (Delayed(c) /\ sessReqs'[c] # sessReqs[c]) =>
            /\ timers[c].state = "armed" /\ timers'[c].state = "fired"
            /\ timers[c].cancels = 0
            /\ now >= timers[c].due
            /\ sessReqs'[c] = 1

C18_State ==
    \A c \in Calls :
        Delayed(c) =>
            /\ timers[c].state \in {"armed", "cleared", "fired"}
            /\ timers[c].state = "cleared" => timers[c].cancels >= 1
            /\ timers[c].state \in {"armed", "cleared"} =>
                   /\ sessReqs[c] = 0 /\ handoffs[c] = 0
                   /\ SessionsOf(c) = {} /\ RequestsOf(c) = {}
            /\ timers[c].state = "fired" =>
                   /\ sessReqs[c] = 1 /\ handoffs[c] <= 1
                   /\ now >= timers[c].due

\* C18: after openTgBotForInteractWithDelay(d), calling the returned
\* function before the timeout has run leaves the call with zero hand-off
\* attempts for good (no interact session is requested); otherwise exactly
\* one attempt is made, in the step that runs the timeout, and that step
\* is not taken before d has elapsed.
C18_DelayedHandoff == [](C18_State) /\ [][C18_Step]_vars

\* one call cancelled in time and one whose timeout ran
C18_Witness ==
    \E c, d \in Calls :
        /\ Delayed(c) /\ timers[c].state = "cleared" /\ now >= timers[c].due
        /\ Delayed(d) /\ timers[d].state = "fired" /\ timers[d].cancels = 0
        /\ sessReqs[d] = 1 /\ handoffs[d] = 1

\* invoking the cancellation function of call c after its timeout has run
\* changes nothing but the number of invocations
C19_Step ==
    \A c \in Calls :
        (timers[c].state = "fired"
           /\ timers'[c].cancels = timers[c].cancels + 1) =>
            /\ timers' = [timers EXCEPT ![c].cancels = @ + 1]
            /\ UNCHANGED <<op, ret, inflight, sessions, sessReqs, handoffs,
                           linkCalls, tgLinks, drawer, now>>

\* C19: calling the returned cancellation function after the timeout has
\* run, once or repeatedly, changes nothing: the timeout stays run, nothing
\* is requested, opened or undone, and the call keeps exactly one hand-off
\* attempt.
C19_LateCancelNoOp ==
    /\ [][C19_Step]_vars
    /\ [](\A c \in Calls :
            (Delayed(c) /\ timers[c].cancels >= 1
               /\ timers[c].state # "cleared") =>
                timers[c].state = "fired" /\ sessReqs[c] = 1)

C19_Witness ==
    \E c \in Calls :
        /\ Delayed(c) /\ timers[c].state = "fired"
        /\ timers[c].cancels = MaxCancels
        /\ sessReqs[c] = 1 /\ handoffs[c] = 1 /\ SessionsOf(c) # {}

\* e is a provider response for the injected request of call c
IsResponseFor(e, c) ==
    /\ e.id = reqId[c]
    /\ e.from = "stavax_account"
    /\ e.eventType = "stv_injected_provider_response"

\* C20 as stated: when a 'message' event fires, a pending injected request
\* whose response it is settles (resolved with eventData on success,
\* rejected with it otherwise); for any other request the event is ignored:
\* the request neither settles nor stops listening.
C20_Step ==
    \A e \in winQueue, c \in winListeners :
        e \notin winQueue' =>
            IF IsResponseFor(e, c)
            THEN /\ ret'[c] = IF e.success THEN Resolved(e.eventData)
                                           ELSE Rejected(e.eventData)
                 /\ c \notin winListeners'
            ELSE ret'[c] = ret[c] /\ c \in winListeners'

C20_OnlyResponsesSettle == [][C20_Step]_vars

\* call c is made in this step as a provider request for a method of ms
Requests(c, ms) ==
    /\ op[c].kind = "none"
    /\ op'[c].kind = "ethRequest" /\ op'[c].method \in ms

\* the step posts exactly the request of call c to the parent frame and
\* leaves the call pending and the stored record alone
RelayedToParent(c) ==
    /\ reqId'[c] # NoKey /\ reqId'[c] \notin parentMsgs
    /\ parentMsgs' = parentMsgs \cup {reqId'[c]}
    /\ ret'[c] = Pending
    /\ ethStorage' = ethStorage

\* the step posts nothing to the parent frame and registers no handler
NoRoundTrip(c) ==
    /\ reqId'[c] = NoKey
    /\ parentMsgs' = parentMsgs
    /\ winListeners' = winListeners

\* '0x' + chainId.toString(16) for the stored decimal strings that occur
StoredChainHex ==
    CASE ethStorage.chainId \in {<<>>, <<"1">>} -> <<"0", "x", "1">>
      [] ethStorage.chainId = <<"1", "3", "7">> -> <<"0", "x", "8", "9">>
      [] ethStorage.chainId = <<"N", "a", "N">> -> <<"0", "x", "N", "a", "N">>

\* the decimal string stored for a chain-switch parameter
SwitchedChain(param) ==
    CASE param = <<"0", "x", "1">> -> <<"1">>
      [] param = <<"0", "x", "8", "9">> -> <<"1", "3", "7">>
      [] param = <<"0", "x">> -> <<"N", "a", "N">>

\* the answer of a locally handled method and the record it leaves
AnsweredFromRecord(c) ==
    CASE op'[c].method = "eth_accounts" ->
             /\ ret'[c] = Resolved([tag |-> "accounts",
                    list |-> IF ethStorage.evmAddress = "" THEN <<>>
                             ELSE <<ethStorage.evmAddress>>])
             /\ ethStorage' = ethStorage
      [] op'[c].method = "eth_chainId" ->
             /\ ret'[c] = Resolved(Text(StoredChainHex))
             /\ ethStorage' = ethStorage
      [] op'[c].method = "wallet_revokePermissions" ->
             /\ ret'[c] = Resolved(Null)
             /\ ethStorage' = [ethStorage EXCEPT !.evmAddress = ""]
      [] op'[c].method = "wallet_switchEthereumChain" ->
             /\ ret'[c] = Resolved(Null)
             /\ ethStorage' = [ethStorage EXCEPT
                                  !.chainId = SwitchedChain(op'[c].param)]

\* C21: a provider request for wallet_switchEthereumChain, eth_chainId,
\* eth_accounts or wallet_revokePermissions is answered from the locally
\* persisted address/chain-id record, with no message to the parent frame,
\* when the SDK is not injected; when the SDK is injected the request is
\* relayed to the parent frame by one postMessage like every other method
\* and the record is neither read for the answer nor changed.
C21_LocalMethodsWhenNotInjected ==
    [][\A c \in Calls :
           Requests(c, LocalMethods) =>
               IF isInjected
               THEN RelayedToParent(c)
               ELSE NoRoundTrip(c) /\ AnsweredFromRecord(c)]_vars

\* not injected: the chain was switched to 0x89 and a later eth_chainId
\* request was answered 0x89 with nothing posted to the parent
C21_Witness ==
    /\ ~isInjected /\ parentMsgs = {}
    /\ \E c, d \in Calls :
          /\ c < d
          /\ op[c].method = "wallet_switchEthereumChain"
          /\ op[c].param = <<"0", "x", "8", "9">>
          /\ op[d].method = "eth_chainId"
          /\ ret[d] = Resolved(Text(<<"0", "x", "8", "9">>))

\* C21 as stated: as the injected provider, the four methods are answered
\* from the record and cause no postMessage round trip
C21_Original ==
    [][\A c \in Calls :
           (Requests(c, LocalMethods) /\ isInjected) =>
               NoRoundTrip(c) /\ AnsweredFromRecord(c)]_vars

UnknownMethods == Methods \ (LocalMethods \cup RelayedMethods)

\* the step rejects call c with the error of an unsupported method
FailsUnsupported(c) ==
    ret'[c] = Rejected(IF op'[c].method = "wallet_requestPermissions"
                       THEN UnsupportedMethod
                       ELSE [tag |-> "string",
                             chars |-> "Method not implemented",
                             chain |-> parseInt(StoredChainHex, 16)])

\* C22: with no custom provider function, a provider request for a method
\* that is neither relayed nor handled locally fails with an
\* unsupported-method error, leaves the persisted record unchanged and
\* sends no message to the parent frame when the SDK is not injected;
\* when the SDK is injected the request is relayed to the parent frame.
C22_UnsupportedMethodWhenNotInjected ==
    [][\A c \in Calls :
           (Requests(c, UnknownMethods) /\ ~customProviderFn) =>
               IF isInjected
               THEN RelayedToParent(c)
               ELSE /\ FailsUnsupported(c)
                    /\ ethStorage' = ethStorage
                    /\ NoRoundTrip(c)]_vars

\* not injected and without a custom provider function: an unknown method
\* was rejected while the record holds an address and a chain id
C22_Witness ==
    /\ ~isInjected /\ ~customProviderFn
    /\ ethStorage.evmAddress # "" /\ ethStorage.chainId = <<"1", "3", "7">>
    /\ parentMsgs = {}
    /\ \E c \in Calls :
          /\ op[c].method = "eth_getBalance"
          /\ ret[c].state = "rejected"

\* C22 as stated: the request fails, changes nothing and posts nothing,
\* injected or not
C22_Original ==
    [][\A c \in Calls :
           (Requests(c, UnknownMethods) /\ ~customProviderFn) =>
               /\ FailsUnsupported(c)
               /\ ethStorage' = ethStorage
               /\ NoRoundTrip(c)]_vars

ConnectorMissingError == Err("cannot find stavaxProvider connector")

Writes(c) == op[c].kind = "none" /\ op'[c].kind = "writeContract"

\* the encoded call followed by the suffix without its '0x'
SuffixedData(functionName, dataSuffix) ==
    CASE functionName = "transfer" /\ dataSuffix = NoValue ->
             <<"0", "x", "a", "9">>
      [] functionName = "transfer"
             /\ dataSuffix = Text(<<"0", "x", "b", "e">>) ->
             <<"0", "x", "a", "9", "b", "e">>

\* C29: a writeContract(params) call hands sendTransaction the target
\* contract address as 'to' and, as 'data', the encoded call followed by
\* the data suffix without its '0x'; what the call does from there on (the
\* requests it issues, the hand-off it attempts, the promise it returns) is
\* what sendTransaction does with these parameters in the same state.
C29_WriteContractIsSendTransaction ==
    [][\A c \in Calls :
           Writes(c) =>
               /\ op'[c].to = op'[c].address
               /\ op'[c].data = SuffixedData(op'[c].functionName,
                                             op'[c].dataSuffix)
               /\ Cur' = sendTransaction([Cur EXCEPT !.op[c] = op'[c]], c)
      ]_vars

\* the fast path is on: a writeContract call with a data suffix found a
\* smart session and resolved with the hash of the smart-session send
C29_Witness ==
    /\ config.enableSmartSession
    /\ \E c \in Calls :
          /\ op[c].kind = "writeContract"
          /\ op[c].data = <<"0", "x", "a", "9", "b", "e">>
          /\ findReqs[c] = 1 /\ smartSends[c] = 1 /\ rpcSends[c] = 0
          /\ ret[c].state = "resolved" /\ ret[c].value # NoValue

\* C24: with disableAutoOpenTgBot set, no connect call (with or without a
\* uri) and no sendTransaction/writeContract call attempts a hand-off:
\* nothing is opened, a connect call whose session the backend created is
\* resolved with that session, and a transaction call issues no
\* createSession request.
C24_AutoOpenDisabled ==
    config.disableAutoOpenTgBot =>
        /\ linkCalls = {} /\ tgLinks = {} /\ drawer = NoDrawer
        /\ \A c \in Calls :
               /\ handoffs[c] = 0
               /\ op[c].kind \in {"sendTransaction", "writeContract"} =>
                      sessReqs[c] = 0 /\ SessionsOf(c) = {}
               /\ (op[c].kind \in {"connect", "connectURI"}
                      /\ SessionsOf(c) # {}) =>
                      /\ ret[c].state = "resolved"
                      /\ ret[c].value \in SessionsOf(c)

\* auto-open disabled: a connect() call without a uri was resolved with its
\* session and a sendTransaction call reached the chain-RPC send
C24_Witness ==
    /\ config.disableAutoOpenTgBot
    /\ \E c, d \in Calls :
          /\ op[c].kind = "connect" /\ ret[c].state = "resolved"
          /\ ret[c].value \in sessions
          /\ op[d].kind = "sendTransaction" /\ rpcSends[d] = 1

OptionalFields == {"apiURL", "tgBotWebAppURL", "webURL", "requestTimeout"}
DocumentedDefault(field) ==
    CASE field = "apiURL" -> Text(<<"https://account-api.stavax.io">>)
      [] field = "tgBotWebAppURL" ->
             Text(<<"https://t.me/stavax_account_bot/app">>)
      [] field = "webURL" -> Text(<<"https://account.stavax.io">>)
      [] field = "requestTimeout" -> Num(60000)
Constructed == instance # NoValue /\ instance.state = "constructed"
EmptyValues == {NoValue, Text(<<>>), Num(0)}

\* C25: construction succeeds exactly when projectID is neither missing
\* nor empty; then each optional field that is unset, an empty string or 0
\* holds its documented default and every other supplied value is kept.
C25_ConstructorDefaults ==
    instance # NoValue =>
        /\ Constructed <=> options.projectID \notin EmptyValues
        /\ ~Constructed =>
               /\ instance.state = "threw"
               /\ instance.error = Err("invalid project config")
        /\ Constructed =>
               /\ instance.config.projectID = options.projectID
               /\ \A f \in OptionalFields :
                      instance.config[f] =
                          IF options[f] \in EmptyValues
                          THEN DocumentedDefault(f) ELSE options[f]

\* only projectID was given: the instance holds the four defaults
C25_Witness ==
    /\ Constructed
    /\ \A f \in OptionalFields :
           options[f] = NoValue /\ instance.config[f] = DocumentedDefault(f)

\* C25 as stated: unset fields take their defaults and supplied values
\* are kept
C25_Original ==
    instance # NoValue =>
        /\ Constructed <=> options.projectID \notin {NoValue, Text(<<>>)}
        /\ Constructed =>
               \A f \in OptionalFields :
                   instance.config[f] =
                       IF options[f] = NoValue
                       THEN DocumentedDefault(f) ELSE options[f]

ReadsDeviceID == inflight' \ inflight # {}

\* C26: the first read of the device id stores a key of 64 characters;
\* from then on the stored key never changes, no further key is generated
\* for it, and every request carries the stored key as its device id.
C26_DeviceIDPersists ==
    /\ [](\A r \in inflight : r.deviceID = localStorage /\ r.deviceID[3] = 64)
    /\ [][/\ (localStorage = NoKey /\ ReadsDeviceID) =>
                 localStorage' # NoKey /\ localStorage'[3] = 64
          /\ localStorage # NoKey =>
                 localStorage' = localStorage /\ randoms' = randoms]_vars

\* two calls have a request in flight, both with the one key generated
C26_Witness ==
    /\ randoms = 1 /\ localStorage = <<"key", 1, 64>>
    /\ \E r1, r2 \in inflight :
          /\ r1.owner # r2.owner
          /\ r1.deviceID = localStorage /\ r2.deviceID = localStorage

\* every context has read the device id and none is inside a read
AllHaveRead ==
    \A x \in DOMAIN contexts :
        contexts[x].pc = "idle" /\ contexts[x].returned # <<>>

\* C27: when the contexts sharing a storage have finished their first
\* reads of the device id, however these interleaved, every identifier a
\* read has returned to its caller is the value left in the storage.
C27_RaceConverges ==
    AllHaveRead =>
        \A x \in DOMAIN contexts :
            \A i \in DOMAIN contexts[x].returned :
                contexts[x].returned[i] = localStorage

\* C28: no request to the backend stays in flight for longer than the
\* request timeout, so no connect(uri) or openTgBot call is still pending
\* on a request issued longer ago than that.
C28_RequestsBounded ==
    \A r \in inflight : Waited(Cur, r) <= RequestTimeout

\* a sendTransaction call on an instance whose enableSmartSession is false
FastPathOff(c) == op[c].kind = "sendTransaction" /\ ~config.enableSmartSession

\* C39 as stated: with enableSmartSession false, sendTransaction never
\* calls the find-session or the send-transaction endpoint and always goes
\* to the standard chain-RPC send, whatever disableSmartSessionFailSafe is.
C39_Original ==
    \A c \in Calls :
        FastPathOff(c) =>
            findReqs[c] = 0 /\ smartSends[c] = 0 /\ StandardSend(c)

\* C39 as amended: with enableSmartSession false, sendTransaction never
\* calls either smart-session endpoint and never resolves with a
\* smart-session hash, whatever disableSmartSessionFailSafe is; on an
\* instance that has a wagmiConfig it calls the chain-RPC send exactly once
\* and returns its outcome, and on one without it rejects with 'Missing
\* wagmiConfig' and calls no chain-RPC send.
C39_FastPathOff ==
    \A c \in Calls :
        FastPathOff(c) =>
            /\ findReqs[c] = 0 /\ smartSends[c] = 0
            /\ c \notin found
            /\ \A r \in RequestsOf(c) : r.cont \notin {"find", "smartSend"}
            /\ ret[c] # Resolved(Hash("smart", c))
            /\ IF config.wagmiConfig.present
               THEN StandardSend(c)
               ELSE /\ ret[c] = Rejected(Err("Missing wagmiConfig"))
                    /\ rpcSends[c] = 0

C39_Witness ==
    \E c \in Calls :
        /\ FastPathOff(c) /\ config.disableSmartSessionFailSafe
        /\ config.wagmiConfig.present
        /\ ret[c] = Resolved(Hash("rpc", c))

\* call c is an injected request that has been posted and not settled
Outstanding(c) ==
    op[c].kind = "request" /\ reqId[c] # NoKey /\ ret[c] = Pending

\* C36 as stated: whenever the host's valid response to an outstanding
\* injected request is delivered, the request settles with it, whatever
\* messages were delivered before.
C36_Step ==
    \A e \in winQueue, c \in Calls :
        (e \notin winQueue' /\ Outstanding(c) /\ IsResponseFor(e, c)) =>
            ret'[c] = IF e.success THEN Resolved(e.eventData)
                                   ELSE Rejected(e.eventData)

C36_ValidResponseSettles == [][C36_Step]_vars

\* C37: the correlation ids of the injected requests are pairwise
\* different; a request is settled, and its handler removed, only in a
\* step that delivers a message carrying its own id; a settled request
\* never changes again; so a response for one request never settles
\* another request nor removes its handler, in any delivery order.
C37_State ==
    \A c, d \in Calls :
        (c # d /\ reqId[c] # NoKey) => reqId[c] # reqId[d]

C37_Step ==
    \A c \in Calls :
        /\ ret[c] # Pending => ret'[c] = ret[c]
        /\ (op[c].kind = "request" /\ ret'[c] # ret[c]) =>
               \E e \in winQueue :
                   e \notin winQueue' /\ IsResponseFor(e, c)
        /\ (c \in winListeners /\ c \notin winListeners') =>
               \E e \in winQueue : e \notin winQueue' /\ e.id = reqId[c]
        /\ c \in winListeners => reqId'[c] = reqId[c]

C37_OwnResponseOnly == [](C37_State) /\ [][C37_Step]_vars

\* two requests were outstanding and the response to the later one has
\* settled it while the earlier one still waits with its handler
C37_Witness ==
    \E c, d \in Calls :
        /\ c < d
        /\ op[c].kind = "request" /\ op[d].kind = "request"
        /\ ret[c] = Pending /\ c \in winListeners
        /\ ret[d] = Resolved(EventData) /\ d \notin winListeners

\* C35 as stated: in injected mode, with the Stavax provider connector
\* configured, a connect() call without a uri has settled once the
\* connector's connect has completed or failed.
C35_InjectedConnectSettles ==
    \A c \in Calls :
        /\ isInjected /\ op[c].kind = "connect"
        /\ pairing[c].connector = ProviderRDNS
        /\ pairing[c].state \in {"fulfilled", "rejected"}
        => ret[c].state \in {"resolved", "rejected"}

\* the createSession requests issued so far by the calls of cs
RECURSIVE RequestsIssued(_)
RequestsIssued(cs) ==
    IF cs = {}
    THEN 0
    ELSE LET c == CHOOSE x \in cs : TRUE
         IN  sessReqs[c] + RequestsIssued(cs \ {c})

\* C34 as stated: with attempts that do not overlap, when the connector
\* emits a 'display_uri' event during an attempt, the only listeners
\* registered are that attempt's, and the event causes at most one
\* createSession request.
C34_Step ==
    \A a \in Calls :
        (/\ pairing[a].state = "pending"
         /\ \E kind \in {"display_uri:uri", "display_uri:empty"} :
                emitted'[kind] # emitted[kind]) =>
            /\ \A i \in DOMAIN listeners : listeners[i] = a
            /\ RequestsIssued(Calls)' <= RequestsIssued(Calls) + 1

C34_OneRequestPerEvent == [][C34_Step]_vars

\* a connect() call without a uri on a page that is not injected
PlainConnect(c) == op[c].kind = "connect" /\ ~isInjected

\* the order of the steps of such a call, step by step
C38_Step ==
    \A c \in Calls :
        PlainConnect(c)' =>
            /\ pairStarts'[c] > pairStarts[c] =>
                   /\ ~Registered(c) /\ Registered(c)'
                   /\ sessReqs'[c] = 0
            /\ sessReqs'[c] > sessReqs[c] =>
                   /\ Registered(c) /\ pairStarts[c] >= 1
                   /\ emitted'["display_uri:uri"]
                          = emitted["display_uri:uri"] + 1
                   /\ handoffs'[c] = 0 /\ ret'[c] = Pending
            /\ handoffs'[c] > handoffs[c] =>
                   /\ sessReqs[c] >= 1
                   /\ SessionsOf(c) = {} /\ SessionsOf(c)' # {}
                   /\ ret[c] = Pending
            /\ (ret[c] = Pending /\ ret'[c].state = "resolved") =>
                   /\ SessionsOf(c)' # {}
                   /\ handoffs'[c] =
                          IF config.disableAutoOpenTgBot THEN 0 ELSE 1

\* and in every state reached
C38_State ==
    \A c \in Calls :
        PlainConnect(c) =>
            /\ pairStarts[c] >= 1 => (Registered(c) \/ Handled(c))
            /\ sessReqs[c] >= 1 =>
                   pairStarts[c] >= 1 /\ emitted["display_uri:uri"] >= 1
            /\ handoffs[c] >= 1 =>
                   sessReqs[c] >= 1 /\ SessionsOf(c) # {}
            /\ ret[c].state = "resolved" =>
                   /\ ret[c].value \in SessionsOf(c)
                   /\ config.disableAutoOpenTgBot \/ handoffs[c] >= 1

\* C38: in a connect() run without a uri (not injected) the 'message'
\* listener is registered when the pairing is started; the createSession
\* request is issued only in a step in which the registered listener
\* receives a 'display_uri' message with a uri; a hand-off is attempted
\* only once the backend has created the session; and the call resolves
\* only with the hand-off attempted, or skipped because
\* disableAutoOpenTgBot is set.
C38_ConnectOrder == [](C38_State) /\ [][C38_Step]_vars

C38_Witness ==
    \E c \in Calls :
        /\ PlainConnect(c) /\ ~config.disableAutoOpenTgBot
        /\ pairStarts[c] = 1 /\ sessReqs[c] = 1 /\ handoffs[c] = 1
        /\ ret[c].state = "resolved" /\ ret[c].value \in SessionsOf(c)

\* the hand-off of call c has reached the Drawer
Embedded(c) ==
    /\ op[c].kind = "openTgBotWithSessionData" /\ handoffs[c] >= 1
    /\ isTelegram /\ config.usingEmbeddedMode

\* C32: whatever instances issued the embedded hand-offs, the page has at
\* most one overlay root and one 'message' listener of the Drawer, and
\* exactly one of each once a hand-off has reached the Drawer.
C32_OneOverlay ==
    /\ drawer.roots <= 1 /\ drawer.listeners <= 1
    /\ drawer.roots = drawer.listeners
    /\ drawer.instance <=> drawer.roots = 1
    /\ (\E c \in Calls : Embedded(c)) => drawer.roots = 1

\* two instances have each handed a session to the Drawer
C32_Witness ==
    \E c, d \in Calls :
        /\ Embedded(c) /\ Embedded(d)
        /\ op[c].by # op[d].by
        /\ drawer.roots = 1 /\ drawer.listeners = 1

\* e is a message the Drawer accepts
FromWalletHost(e) == e.origin = "webURL" /\ e.from = "stavax_account"

C33_Step ==
    \A e \in winQueue :
        e \notin winQueue' =>
            /\ ~FromWalletHost(e) => drawer' = drawer
            /\ (FromWalletHost(e) /\ drawer.listeners = 1) =>
                   /\ e.method = "stv_app_ready" =>
                          drawer' = [drawer EXCEPT !.iframeReady = TRUE,
                                                   !.pageReady = TRUE]
                   /\ e.method = "tgWebApp_close" =>
                          drawer' = [drawer EXCEPT !.isOpen = FALSE]
                   /\ e.method = NavigationMethod =>
                          drawer' = [drawer EXCEPT !.relayed = {"openLink"}]

\* C33: the Drawer changes on a window message only when the message's
\* origin is config.webURL itself and its from field is 'stavax_account'
\* (then stv_app_ready marks it ready, tgWebApp_close closes it and a
\* tgWebAppNavigation method is relayed to Telegram.WebApp); a message of
\* any other origin or sender leaves it as it was and relays nothing; and
\* every session it posts is posted with config.webURL as the target
\* origin.
C33_OriginChecked ==
    /\ [](\A p \in drawer.posted : p.targetOrigin = "webURL")
    /\ [][C33_Step]_vars

\* the overlay is open and not ready, a message from another origin has
\* been delivered to it, and one from the wallet host is still to come
C33_Witness ==
    /\ drawer.listeners = 1 /\ drawer.isOpen /\ ~drawer.iframeReady
    /\ winPosted = MaxWinMsgs
    /\ \E e \in winQueue : FromWalletHost(e) /\ winQueue = {e}

\* C31 as stated: once the constructor has applied the defaults, no public
\* operation, setWagmiConfig included, changes any field of the
\* configuration.
C31_Original == [][config' = config /\ instance' = instance]_vars

\* call c is made in this step as a setWagmiConfig call
SetsWagmiConfig(c) == op[c].kind = "none" /\ op'[c].kind = "setWagmiConfig"

C31_Step ==
    /\ instance' = instance
    /\ config' # config =>
           \E c \in Calls :
               /\ SetsWagmiConfig(c)
               /\ config' = [config EXCEPT
                                 !.wagmiConfig = op'[c].wagmiConfig]
    /\ \A c \in Calls :
           SetsWagmiConfig(c) => config'.wagmiConfig = op'[c].wagmiConfig

\* C31 as amended: on a constructed instance the fields the constructor
\* defaulted and the flags never change; the configuration changes only
\* in a setWagmiConfig call, which replaces the wagmiConfig field by its
\* argument and leaves every other field as it was.
C31_ConfigFrame == [][C31_Step]_vars

\* a transaction call rejected for want of a wagmiConfig, then
\* setWagmiConfig: the instance now holds the connectors
C31_Witness ==
    \E c, d \in Calls :
        /\ c < d
        /\ op[c].kind = "sendTransaction"
        /\ ret[c] = Rejected(Err("Missing wagmiConfig"))
        /\ op[d].kind = "setWagmiConfig"
        /\ config.wagmiConfig = WagmiConfig(ConnectorIDs)
        /\ instance.config.requestTimeout = Num(60000)

====
